---- MODULE Spec2Model ----
(***************************************************************************)
(* A model of lammm, an interpreter for a small lambda-mu-mu~ calculus:    *)
(* the typing context (type store, unification, instantiation), the        *)
(* parser (name resolution, arity and totality checks), the typer and the  *)
(* small-step interpreter with focusing.                                   *)
(*                                                                         *)
(* Handles, abstraction ids, definition ids and (co)variable ids are the   *)
(* 0-based indices of the C++ code; a vector v is a sequence, v[i] in C++  *)
(* is v[i+1] here.  An absent std::optional is written None (-1).          *)
(***************************************************************************)
EXTENDS Integers, Sequences, FiniteSets, TLC

VARIABLES
  ctx,      \* the Typing_context
  strong,   \* the Strong_type_handles handed out to the context's clients
  last,     \* the last call made on the context: its kind and its outcome
  nunify,   \* the number of unify calls made so far
  given,    \* which input the input stream was filled with
  input,    \* the input stream, as tokens
  phase,    \* where the driver is: start, parse_error, parsed, ready, running, dead
  parser,   \* the Parser
  prog,     \* the Program the parser returned
  typer,    \* the counters of the Typer of type_program
  type_errors, \* the errors of the Multiple_typing_exception, empty when none
  typed,    \* "no" before type_program, then "ok" or "fail"
  interp,   \* the Interpreter
  current,  \* run's local variable current while it holds a Statement
  si,       \* the position of run's for loop (1-based), 0 outside
  results,  \* run's local variable results, the returned list afterwards
  runs,     \* how every invocation of run ended so far
  nsteps,   \* run's local variable steps
  printed   \* the argument of the last print_info of a step

clientVars == <<strong, last, nunify>>

pipeVars ==
  <<given, input, phase, parser, prog, typer, type_errors, typed, interp, current,
    si, results, runs, nsteps, printed>>

vars == <<ctx, clientVars, pipeVars>>

None == 0 - 1

(***************************************************************************)
(* Generic helpers                                                         *)
(***************************************************************************)
Range(s) == {s[i] : i \in 1..Len(s)}

Last(s) == s[Len(s)]

Front(s) == SubSeq(s, 1, Len(s) - 1)

\* A call whose result is read more than once is made once and named, as the
\* local variable of the source that holds it:
\*   (CHOOSE picked \in {( body ) : r \in {call}} : TRUE)
\* is body with r the value of call.  The call is evaluated before body, so a
\* chain of such bindings reads from its last line upwards.

RECURSIVE SetToSeq(_)
SetToSeq(S) ==
  IF S = {} THEN <<>>
  ELSE (CHOOSE picked \in {(<<m>> \o SetToSeq(S \ {m})) : m \in {CHOOSE x \in S : \A y \in S : x <= y}} : TRUE)

(***************************************************************************)
(* Types.h / Types.cpp : the typing context                                *)
(***************************************************************************)

\* Type_instance = variant<Type_var, Concrete_type, Type_handle>
Type_var(id) == [k |-> "var", id |-> id]

Concrete_type(tid, params) == [k |-> "con", tid |-> tid, params |-> params]

Forward(h) == [k |-> "fwd", to |-> h]

\* Type_template = variant<Type_template_var, Box<Concrete_type_template>>
Type_template_var(i) == [k |-> "tv", id |-> i]

Concrete_type_template(tid, params) == [k |-> "tc", tid |-> tid, params |-> params]

\* Builtin_type_id
integer == 0
list == 1
pair == 2
stream == 3
lazy_pair == 4
lambda == 5

\* Builtin_abstraction_id
list_nil == 0
list_cons == 1
pair_pair == 2
stream_head == 3
stream_tail == 4
lazy_pair_fst == 5
lazy_pair_snd == 6
lambda_ap == 7

\* the empty Typing_context
EmptyContext ==
  [types |-> <<>>, abstractions |-> <<>>, type_prototypes |-> <<>>,
   type_structors |-> {}]

\* Typing_context::fresh_type_variable: the new handle is Len(types) before the call
fresh_type_variable(types) == Append(types, Type_var(Len(types) - 1))

RECURSIVE fresh_type_variables(_, _)
fresh_type_variables(types, n) ==
  IF n = 0 THEN types ELSE fresh_type_variables(fresh_type_variable(types), n - 1)

\* Typing_context::add_type_prototype
add_type_prototype(cx, n_params) ==
  (CHOOSE picked \in {(
      [cx EXCEPT !.types =
                 fresh_type_variables(
                   Append(@, Concrete_type(Len(cx.type_prototypes),
                                           [i \in 1..n_params |-> prototype_handle + i])),
                   n_params),
               !.type_prototypes = Append(@, prototype_handle)]
    ) : prototype_handle \in {Len(cx.types)}} : TRUE)

\* Typing_context::instantiate_type_template; returns [types, h]
RECURSIVE instantiate_type_template(_, _, _)
RECURSIVE instantiate_type_templates(_, _, _, _)
instantiate_type_template(types, template, params) ==
  IF template.k = "tv" THEN [types |-> types, h |-> params[template.id + 1]]
  ELSE (CHOOSE picked \in {(
      [types |-> Append(ps.types, Concrete_type(template.tid, ps.hs)),
                         h |-> Len(ps.types)]
    ) : ps \in {instantiate_type_templates(types, template.params, params, 1)}} : TRUE)

\* the loops over a vector of templates; returns [types, hs]
instantiate_type_templates(types, templates, params, i) ==
  IF i > Len(templates) THEN [types |-> types, hs |-> <<>>]
  ELSE (CHOOSE picked \in {(
      (CHOOSE picked \in {(
           [types |-> rest.types, hs |-> <<one.h>> \o rest.hs]
         ) : rest \in {instantiate_type_templates(one.types, templates, params, i + 1)}} : TRUE)
    ) : one \in {instantiate_type_template(types, templates[i], params)}} : TRUE)

\* Typing_context::add_structor
add_structor(cx, name, type_id, args, coargs) ==
  (CHOOSE picked \in {(
      (CHOOSE picked \in {(
      (CHOOSE picked \in {(
      (CHOOSE picked \in {(
      [cx EXCEPT !.types = c.types,
               !.abstractions = Append(@, [type |-> proto, name |-> name,
                                           args |-> a.hs, coargs |-> c.hs]),
               !.type_structors = @ \cup {<<proto, Len(cx.abstractions)>>}]
    ) : c \in {instantiate_type_templates(a.types, coargs, params, 1)}} : TRUE)
    ) : a \in {instantiate_type_templates(cx.types, args, params, 1)}} : TRUE)
    ) : params \in {cx.types[proto + 1].params}} : TRUE)
    ) : proto \in {cx.type_prototypes[type_id + 1]}} : TRUE)

\* Typing_context::add_definition; the new abstraction id is Len(abstractions) before
add_definition(cx, name, arity, coarity) ==
  (CHOOSE picked \in {(
      [cx EXCEPT !.types = fresh_type_variables(@, arity + coarity),
               !.abstractions =
                  Append(@, [type |-> None, name |-> name,
                             args |-> [i \in 1..arity |-> n + i - 1],
                             coargs |-> [i \in 1..coarity |-> n + arity + i - 1]])]
    ) : n \in {Len(cx.types)}} : TRUE)

\* the builtin_types table: parameter counts in Builtin_type_id order
builtin_types == <<0, 1, 2, 1, 2, 2>>

\* the builtin_structors table of Types.cpp
builtin_structors ==
  << [name |-> "Nil", type_id |-> list, args |-> <<>>, coargs |-> <<>>],
     [name |-> "Cons", type_id |-> list,
      args |-> <<Type_template_var(0),
                 Concrete_type_template(list, <<Type_template_var(0)>>)>>,
      coargs |-> <<>>],
     [name |-> "Pair", type_id |-> pair,
      args |-> <<Type_template_var(0), Type_template_var(1)>>, coargs |-> <<>>],
     [name |-> "Head", type_id |-> stream,
      args |-> <<>>, coargs |-> <<Type_template_var(0)>>],
     [name |-> "Tail", type_id |-> stream, args |-> <<>>,
      coargs |-> <<Concrete_type_template(stream, <<Type_template_var(0)>>)>>],
     [name |-> "Fst", type_id |-> lazy_pair,
      args |-> <<>>, coargs |-> <<Type_template_var(0)>>],
     [name |-> "Snd", type_id |-> lazy_pair,
      args |-> <<>>, coargs |-> <<Type_template_var(1)>>],
     [name |-> "Ap", type_id |-> lambda,
      args |-> <<Type_template_var(0)>>, coargs |-> <<Type_template_var(1)>>] >>

RECURSIVE add_builtin_types(_, _)
add_builtin_types(cx, i) ==
  IF i > Len(builtin_types) THEN cx
  ELSE add_builtin_types(add_type_prototype(cx, builtin_types[i]), i + 1)

RECURSIVE add_builtin_structors(_, _)
add_builtin_structors(cx, i) ==
  IF i > Len(builtin_structors) THEN cx
  ELSE add_builtin_structors(
         add_structor(cx, builtin_structors[i].name, builtin_structors[i].type_id,
                      builtin_structors[i].args, builtin_structors[i].coargs), i + 1)

\* default_typing_context()
default_typing_context == add_builtin_structors(add_builtin_types(EmptyContext, 1), 1)

\* Typing_context::get_primitive_prototype
get_primitive_prototype(cx, id) == cx.type_prototypes[id + 1]

\* Typing_context::structors_like
structors_like(cx, id) ==
  {p[2] : p \in {q \in cx.type_structors : q[1] = cx.abstractions[id + 1].type}}

\* the reference_chain vector built by try_dereference
RECURSIVE reference_chain(_, _)
reference_chain(types, h) ==
  IF types[h + 1].k = "fwd" THEN <<h>> \o reference_chain(types, types[h + 1].to)
  ELSE <<>>

\* the handle at the end of the chain
RECURSIVE chain_end(_, _)
chain_end(types, h) ==
  IF types[h + 1].k = "fwd" THEN chain_end(types, types[h + 1].to) ELSE h

\* Typing_context::try_dereference (non-const: compresses); returns [types, h]
try_dereference(types, h) ==
  (CHOOSE picked \in {(
      (CHOOSE picked \in {(
      [types |-> [i \in 1..Len(types) |->
                  IF \E j \in 1..(Len(chain) - 1) : chain[j] = i - 1
                  THEN Forward(end) ELSE types[i]],
     h |-> end]
    ) : end \in {chain_end(types, h)}} : TRUE)
    ) : chain \in {reference_chain(types, h)}} : TRUE)

\* Typing_context::occurs; returns [types, r]
RECURSIVE occurs(_, _, _)
RECURSIVE occurs_params(_, _, _, _)
\* an occurs check that finds nothing
occurs_nowhere(types, a, b) == [types |-> types, r |-> FALSE]

occurs(types, a, b) ==
  (CHOOSE picked \in {(
      IF d.types[d.h + 1].k = "var" THEN [types |-> d.types, r |-> (a = d.h)]
    ELSE occurs_params(d.types, a, d.types[d.h + 1].params, 1)
    ) : d \in {try_dereference(types, b)}} : TRUE)

\* the loop over b_concrete.params
occurs_params(types, a, params, i) ==
  IF i > Len(params) THEN [types |-> types, r |-> FALSE]
  ELSE IF params[i] = a THEN [types |-> types, r |-> TRUE]
  ELSE (CHOOSE picked \in {(
      IF o.r THEN o ELSE occurs_params(o.types, a, params, i + 1)
    ) : o \in {occurs(types, a, params[i])}} : TRUE)

\* Typing_context::unify_rec; returns [types, err], err the kind of the
\* Unification_exception thrown ("" when none); bindings made before a throw stay
RECURSIVE unify_rec(_, _, _)
RECURSIVE unify_params(_, _, _, _)
\* a unify_rec without the trivial end for two handles of one type
unify_rec_no_trivial_end(types, a0, b0) ==
  (CHOOSE picked \in {(
      (CHOOSE picked \in {(
      (CHOOSE picked \in {(
      (CHOOSE picked \in {(
      (CHOOSE picked \in {(
      (CHOOSE picked \in {(
      IF t[a + 1].k = "var"
      THEN (CHOOSE picked \in {(
          IF o.r THEN [types |-> o.types, err |-> "occurs"]
             ELSE [types |-> [o.types EXCEPT ![a + 1] = Forward(b)], err |-> ""]
        ) : o \in {occurs(t, a, b)}} : TRUE)
    ELSE IF t[a + 1].tid # t[b + 1].tid THEN [types |-> t, err |-> "mismatch"]
    ELSE unify_params(t, t[a + 1].params, t[b + 1].params, 1)
    ) : b \in {IF swap THEN da.h ELSE db.h}} : TRUE)
    ) : a \in {IF swap THEN db.h ELSE da.h}} : TRUE)
    ) : swap \in {t[db.h + 1].k = "var"}} : TRUE)
    ) : t \in {db.types}} : TRUE)
    ) : db \in {try_dereference(da.types, b0)}} : TRUE)
    ) : da \in {try_dereference(types, a0)}} : TRUE)

unify_rec(types, a0, b0) ==
  (CHOOSE picked \in {(
      (CHOOSE picked \in {(
      (CHOOSE picked \in {(
      (CHOOSE picked \in {(
      (CHOOSE picked \in {(
      (CHOOSE picked \in {(
      IF da.h = db.h THEN [types |-> t, err |-> ""]
    ELSE IF t[a + 1].k = "var"
      THEN (CHOOSE picked \in {(
          IF o.r THEN [types |-> o.types, err |-> "occurs"]
             ELSE [types |-> [o.types EXCEPT ![a + 1] = Forward(b)], err |-> ""]
        ) : o \in {occurs(t, a, b)}} : TRUE)
    ELSE IF t[a + 1].tid # t[b + 1].tid THEN [types |-> t, err |-> "mismatch"]
    ELSE unify_params(t, t[a + 1].params, t[b + 1].params, 1)
    ) : b \in {IF swap THEN da.h ELSE db.h}} : TRUE)
    ) : a \in {IF swap THEN db.h ELSE da.h}} : TRUE)
    ) : swap \in {t[db.h + 1].k = "var"}} : TRUE)
    ) : t \in {db.types}} : TRUE)
    ) : db \in {try_dereference(da.types, b0)}} : TRUE)
    ) : da \in {try_dereference(types, a0)}} : TRUE)

\* a parameter loop that stops after the first pair of parameters
unify_first_params(types, pa, pb, i) ==
  IF i > Len(pa) \/ i > 1 THEN [types |-> types, err |-> ""]
  ELSE unify_rec(types, pa[i], pb[i])

\* the loop over the parameters of two concrete types
unify_params(types, pa, pb, i) ==
  IF i > Len(pa) THEN [types |-> types, err |-> ""]
  ELSE (CHOOSE picked \in {(
      IF u.err # "" THEN u ELSE unify_params(u.types, pa, pb, i + 1)
    ) : u \in {unify_rec(types, pa[i], pb[i])}} : TRUE)

\* Typing_context::unify
unify(types, a, b) == unify_rec(types, a, b)

\* Typing_context::clone_type_rec; map is a set of <<source, clone>> pairs;
\* returns [types, map, h]
RECURSIVE clone_type_rec(_, _, _)
RECURSIVE clone_params(_, _, _, _)
\* a clone that does not look the source up in the map: every occurrence of a
\* source type gets a copy of its own
clone_type_rec_unshared(types, map, type) ==
  (CHOOSE picked \in {(
      (CHOOSE picked \in {(
      (CHOOSE picked \in {(
      IF t[d.h + 1].k = "var"
      THEN [types |-> fresh_type_variable(t), map |-> map, h |-> n]
    ELSE (CHOOSE picked \in {(
        [types |-> [ps.types EXCEPT ![n + 1].params = ps.hs],
                           map |-> ps.map, h |-> n]
      ) : ps \in {clone_params(Append(t, Concrete_type(t[d.h + 1].tid, <<>>)), map,
                           t[d.h + 1].params, 1)}} : TRUE)
    ) : n \in {Len(t)}} : TRUE)
    ) : t \in {d.types}} : TRUE)
    ) : d \in {try_dereference(types, type)}} : TRUE)

clone_type_rec(types, map, type) ==
  (CHOOSE picked \in {(
      (CHOOSE picked \in {(
      (CHOOSE picked \in {(
      IF \E m \in map : m[1] = d.h
      THEN [types |-> t, map |-> map, h |-> (CHOOSE m \in map : m[1] = d.h)[2]]
    ELSE IF t[d.h + 1].k = "var"
      THEN [types |-> fresh_type_variable(t), map |-> map \cup {<<d.h, n>>}, h |-> n]
    ELSE (CHOOSE picked \in {(
        [types |-> [ps.types EXCEPT ![n + 1].params = ps.hs],
                           map |-> ps.map, h |-> n]
      ) : ps \in {clone_params(Append(t, Concrete_type(t[d.h + 1].tid, <<>>)),
                           map \cup {<<d.h, n>>}, t[d.h + 1].params, 1)}} : TRUE)
    ) : n \in {Len(t)}} : TRUE)
    ) : t \in {d.types}} : TRUE)
    ) : d \in {try_dereference(types, type)}} : TRUE)

\* the loop over concrete.params; returns [types, map, hs]
clone_params(types, map, params, i) ==
  IF i > Len(params) THEN [types |-> types, map |-> map, hs |-> <<>>]
  ELSE (CHOOSE picked \in {(
      (CHOOSE picked \in {(
           [types |-> rest.types, map |-> rest.map, hs |-> <<one.h>> \o rest.hs]
         ) : rest \in {clone_params(one.types, one.map, params, i + 1)}} : TRUE)
    ) : one \in {clone_type_rec(types, map, params[i])}} : TRUE)

\* Typing_context::clone_types; returns [types, hs]
clone_types(types, to_clone) ==
  (CHOOSE picked \in {([types |-> r.types, hs |-> r.hs]) : r \in {clone_params(types, {}, to_clone, 1)}} : TRUE)

\* an instantiate that hands out the handles of the signature itself
instantiate_own(cx, types, abstraction_id) ==
  [types |-> types,
   inst |-> [type |-> cx.abstractions[abstraction_id + 1].type,
             args |-> cx.abstractions[abstraction_id + 1].args,
             coargs |-> cx.abstractions[abstraction_id + 1].coargs]]

\* Typing_context::instantiate; returns [types, inst], inst an Abstraction_instance
instantiate(cx, types, abstraction_id) ==
  (CHOOSE picked \in {(
      (CHOOSE picked \in {(
      (CHOOSE picked \in {(
      (CHOOSE picked \in {(
      (CHOOSE picked \in {(
      [types |-> fresh_types.types,
     inst |-> [type |-> IF abstraction.type # None THEN Last(fresh_types.hs)
                        ELSE None,
               args |-> SubSeq(fresh_types.hs, 1, arity),
               coargs |-> SubSeq(fresh_types.hs, arity + 1, arity + coarity)]]
    ) : fresh_types \in {clone_types(types, to_clone)}} : TRUE)
    ) : to_clone \in {abstraction.args \o abstraction.coargs
         \o (IF abstraction.type # None THEN <<abstraction.type>> ELSE <<>>)}} : TRUE)
    ) : coarity \in {Len(abstraction.coargs)}} : TRUE)
    ) : arity \in {Len(abstraction.args)}} : TRUE)
    ) : abstraction \in {cx.abstractions[abstraction_id + 1]}} : TRUE)

\* Typing_context::get_abstraction_prototype
get_abstraction_prototype(cx, id) ==
  [type |-> None, args |-> cx.abstractions[id + 1].args,
   coargs |-> cx.abstractions[id + 1].coargs]

(***************************************************************************)
(* AST.h : syntax trees.  The name fields (var_name, constructor_name, ...) *)
(* are for display only and are left out: an abstraction's name is the     *)
(* name the typing context holds for its id.  An empty std::optional type  *)
(* slot is None; the std::optional<bool> is_value cache is "none", "true"  *)
(* or "false".                                                             *)
(***************************************************************************)
Variable_prod(id) == [k |-> "Variable_prod", var_id |-> id, type |-> None]

Value_prod(v) == [k |-> "Value_prod", value |-> v, type |-> None]

Mu_prod(id, body) == [k |-> "Mu_prod", coarg_id |-> id, body |-> body, type |-> None]

Constructor_prod(id, args, coargs) ==
  [k |-> "Constructor_prod", abstraction_id |-> id, args |-> args,
   coargs |-> coargs, is_value |-> "none", type |-> None]

Cocase_prod(clauses) == [k |-> "Cocase_prod", clauses |-> clauses, type |-> None]

Covariable_cons(id) == [k |-> "Covariable_cons", covar_id |-> id, type |-> None]

Mu_cons(id, body) == [k |-> "Mu_cons", arg_id |-> id, body |-> body, type |-> None]

Destructor_cons(id, args, coargs) ==
  [k |-> "Destructor_cons", abstraction_id |-> id, args |-> args,
   coargs |-> coargs, type |-> None]

Case_cons(clauses) == [k |-> "Case_cons", clauses |-> clauses, type |-> None]

End_cons == [k |-> "End_cons", type |-> None]

Arithmetic_stmt(op, left, right, after) ==
  [k |-> "Arithmetic_stmt", op |-> op, left |-> left, right |-> right, after |-> after]

Ifz_stmt(condition, if_zero, if_other) ==
  [k |-> "Ifz_stmt", condition |-> condition, if_zero |-> if_zero,
   if_other |-> if_other]

Cut_stmt(producer, consumer) ==
  [k |-> "Cut_stmt", producer |-> producer, consumer |-> consumer]

Call_stmt(definition_id, args, coargs) ==
  [k |-> "Call_stmt", definition_id |-> definition_id, args |-> args,
   coargs |-> coargs]

Clause(id, arg_ids, coarg_ids, body) ==
  [abstraction_id |-> id, arg_ids |-> arg_ids, coarg_ids |-> coarg_ids,
   body |-> body]

Definition(id, arg_ids, coarg_ids, body) ==
  [abstraction_id |-> id, arg_ids |-> arg_ids, coarg_ids |-> coarg_ids,
   body |-> body]

\* a Box whose object was moved away (Util.h: the move constructor empties it)
Moved == [k |-> "Moved"]

\* std::map: lookup with operator[] (an absent key reads as the empty vector)
MapGet(m, key) == IF key \in DOMAIN m THEN m[key] ELSE <<>>

MapPut(m, key, v) ==
  [x \in (DOMAIN m) \cup {key} |-> IF x = key THEN v ELSE m[x]]

MapErase(m, keys) == [x \in (DOMAIN m) \ keys |-> m[x]]

(***************************************************************************)
(* Parser.h / Parser.cpp : the recursive descent parser.                   *)
(* The input stream is modelled after skip_whitespace and read_word have   *)
(* split it: a sequence of tokens, each a delimiter ( ) [ ] or a word.  A  *)
(* word is "a" (starts with a letter), "n" (an integer literal, v its      *)
(* value as std::stoll reads it), "o" (one of + - * / %) or "e" (starts    *)
(* with <).  Every parse function takes the parser, the tokens and the     *)
(* position of the next token and returns [ps, pos, node]; a thrown        *)
(* Parse_exception is ps.err # "", which every caller passes on.           *)
(***************************************************************************)
Tok(t, s, v) == [t |-> t, s |-> s, v |-> v]

EndOfInput == Tok("eof", "", 0)

\* input.peek()
Peek(toks, pos) == IF pos > Len(toks) THEN EndOfInput ELSE toks[pos]

\* read_word returns a non-empty word at this token
IsWord(tok) == tok.t \in {"a", "n", "o", "e"}

R(ps, pos, node) == [ps |-> ps, pos |-> pos, node |-> node]

Fail(ps, pos, e) == [ps |-> [ps EXCEPT !.err = e], pos |-> pos, node |-> Moved]

\* the builtin_structors table of Parser.cpp
parser_builtin_structors ==
  << [name |-> "Nil", id |-> list_nil, arity |-> 0, coarity |-> 0, polarity |-> "producer"],
     [name |-> "Cons", id |-> list_cons, arity |-> 2, coarity |-> 0, polarity |-> "producer"],
     [name |-> "Pair", id |-> pair_pair, arity |-> 2, coarity |-> 0, polarity |-> "producer"],
     [name |-> "Head", id |-> stream_head, arity |-> 0, coarity |-> 1, polarity |-> "consumer"],
     [name |-> "Tail", id |-> stream_tail, arity |-> 0, coarity |-> 1, polarity |-> "consumer"],
     [name |-> "Fst", id |-> lazy_pair_fst, arity |-> 0, coarity |-> 1, polarity |-> "consumer"],
     [name |-> "Snd", id |-> lazy_pair_snd, arity |-> 0, coarity |-> 1, polarity |-> "consumer"],
     [name |-> "Ap", id |-> lambda_ap, arity |-> 1, coarity |-> 1, polarity |-> "consumer"] >>

\* the name -> id map the constructor fills for one polarity
structor_ids_of(polarity) ==
  [n \in {b.name : b \in {x \in Range(parser_builtin_structors) : x.polarity = polarity}}
     |-> (CHOOSE b \in Range(parser_builtin_structors) :
            b.polarity = polarity /\ b.name = n).id]

\* Parser::Parser
Parser(cx) ==
  [ctx |-> cx, n_vars_ |-> 0, n_covars_ |-> 0, n_defs |-> 0,
   var_ctx |-> <<>>, covar_ctx |-> <<>>, def_ids |-> <<>>, def_arity |-> <<>>,
   constructor_ids |-> structor_ids_of("producer"),
   destructor_ids |-> structor_ids_of("consumer"),
   structor_arity |-> [i \in 1..Len(parser_builtin_structors) |->
                         [arity |-> parser_builtin_structors[i].arity,
                          coarity |-> parser_builtin_structors[i].coarity]],
   err |-> ""]

\* the loops that give each (co)parameter name a new id and push it on the
\* name's stack; returns [map, n, ids]
RECURSIVE bind_names(_, _, _, _)
bind_names(map, n, names, i) ==
  IF i > Len(names) THEN [map |-> map, n |-> n, ids |-> <<>>]
  ELSE [bind_names(MapPut(map, names[i], Append(MapGet(map, names[i]), n)),
                   n + 1, names, i + 1)
          EXCEPT !.ids = <<n>> \o @]

\* the cleanup loops: pop_back on each name's stack
RECURSIVE unbind_names(_, _, _)
unbind_names(map, names, i) ==
  IF i > Len(names) THEN map
  ELSE unbind_names(MapPut(map, names[i], Front(MapGet(map, names[i]))), names, i + 1)

\* parse(ps, toks, pos, T, p) is parse<T>(input, p) for T "Producer",
\* "Consumer", "Clause" and "string", parse_statement for T "Statement"
RECURSIVE parse(_, _, _, _, _)
RECURSIVE parse_list_items(_, _, _, _, _)

\* Parser::parse_list<T>
parse_list(ps, toks, pos, T, p) ==
  IF Peek(toks, pos).t # "(" THEN Fail(ps, pos, "unexpected_char")
  ELSE parse_list_items(ps, toks, pos + 1, T, p)

\* expect(input, c, ...) on the result r of the parse before it
Expect(r, toks, c, node) ==
  IF r.ps.err # "" THEN r
  ELSE IF Peek(toks, r.pos).t # c THEN Fail(r.ps, r.pos, "unexpected_char")
  ELSE R(r.ps, r.pos + 1, node)

\* a parse_variable that takes the outermost binder of the name
parse_variable_outermost(ps, toks, pos) ==
  IF ~IsWord(Peek(toks, pos)) THEN Fail(ps, pos, "unexpected_char")
  ELSE IF MapGet(ps.var_ctx, Peek(toks, pos).s) = <<>> THEN Fail(ps, pos + 1, "unknown_name")
  ELSE R(ps, pos + 1, Variable_prod(Head(ps.var_ctx[Peek(toks, pos).s])))

\* Parser::parse_variable
parse_variable(ps, toks, pos) ==
  IF ~IsWord(Peek(toks, pos)) THEN Fail(ps, pos, "unexpected_char")
  ELSE IF MapGet(ps.var_ctx, Peek(toks, pos).s) = <<>> THEN Fail(ps, pos + 1, "unknown_name")
  ELSE R(ps, pos + 1, Variable_prod(Last(ps.var_ctx[Peek(toks, pos).s])))

\* Parser::parse_value; std::stoll on a lone "-" throws std::invalid_argument
parse_value(ps, toks, pos) ==
  IF ~IsWord(Peek(toks, pos)) THEN Fail(ps, pos, "unexpected_char")
  ELSE IF Peek(toks, pos).t # "n" THEN Fail(ps, pos + 1, "invalid_argument")
  ELSE R(ps, pos + 1, Value_prod(Peek(toks, pos).v))

\* Parser::parse_covariable
parse_covariable(ps, toks, pos) ==
  IF ~IsWord(Peek(toks, pos)) THEN Fail(ps, pos, "unexpected_char")
  ELSE IF MapGet(ps.covar_ctx, Peek(toks, pos).s) = <<>> THEN Fail(ps, pos + 1, "unknown_name")
  ELSE R(ps, pos + 1, Covariable_cons(Last(ps.covar_ctx[Peek(toks, pos).s])))

\* Parser::parse_end
parse_end(ps, toks, pos) ==
  IF Peek(toks, pos).s # "<END>" THEN Fail(ps, pos, "unexpected_char")
  ELSE R(ps, pos + 1, End_cons)

\* Parser::parse_mu_p
parse_mu_p(ps, toks, pos) ==
  IF Peek(toks, pos).t # "(" THEN Fail(ps, pos, "unexpected_char")
  ELSE IF Peek(toks, pos + 1).s # "mu" THEN Fail(ps, pos + 1, "unexpected_char")
  ELSE IF ~IsWord(Peek(toks, pos + 2)) THEN Fail(ps, pos + 2, "unexpected_char")
  ELSE (CHOOSE picked \in {(
      IF body.ps.err # "" THEN body
         ELSE Expect(R([body.ps EXCEPT
                          !.covar_ctx = MapPut(@, Peek(toks, pos + 2).s,
                                          Front(MapGet(@, Peek(toks, pos + 2).s)))],
                       body.pos, Moved),
                     toks, ")", Mu_prod(ps.n_covars_, body.node))
    ) : body \in {parse([ps EXCEPT !.n_covars_ = @ + 1,
                             !.covar_ctx = MapPut(@, Peek(toks, pos + 2).s,
                                             Append(MapGet(@, Peek(toks, pos + 2).s),
                                                    ps.n_covars_))],
                  toks, pos + 3, "Statement", "none")}} : TRUE)

\* Parser::parse_mu_c
parse_mu_c(ps, toks, pos) ==
  IF Peek(toks, pos).t # "(" THEN Fail(ps, pos, "unexpected_char")
  ELSE IF Peek(toks, pos + 1).s # "mu'" THEN Fail(ps, pos + 1, "unexpected_char")
  ELSE IF ~IsWord(Peek(toks, pos + 2)) THEN Fail(ps, pos + 2, "unexpected_char")
  ELSE (CHOOSE picked \in {(
      IF body.ps.err # "" THEN body
         ELSE Expect(R([body.ps EXCEPT
                          !.var_ctx = MapPut(@, Peek(toks, pos + 2).s,
                                        Front(MapGet(@, Peek(toks, pos + 2).s)))],
                       body.pos, Moved),
                     toks, ")", Mu_cons(ps.n_vars_, body.node))
    ) : body \in {parse([ps EXCEPT !.n_vars_ = @ + 1,
                             !.var_ctx = MapPut(@, Peek(toks, pos + 2).s,
                                           Append(MapGet(@, Peek(toks, pos + 2).s),
                                                  ps.n_vars_))],
                  toks, pos + 3, "Statement", "none")}} : TRUE)

\* constructor_ids for polarity "producer", destructor_ids for "consumer"
structor_ids(ps, p) == IF p = "producer" THEN ps.constructor_ids ELSE ps.destructor_ids

\* structor_arity[structor_ids[name]] of a known name
structor_arities(ps, p, name) == ps.structor_arity[structor_ids(ps, p)[name] + 1]

\* a cocase clause (p "producer") is headed by a destructor, a case clause by a
\* constructor
dual(p) == IF p = "producer" THEN "consumer" ELSE "producer"

\* def_arity[def_ids[name]] of a known name
definition_arities(ps, name) == ps.def_arity[ps.def_ids[name] + 1]

\* a parse_structor that reads both lists whatever the arities are
parse_structor_both_lists(ps, toks, pos, p) ==
  IF Peek(toks, pos).t # "(" THEN Fail(ps, pos, "unexpected_char")
  ELSE IF ~IsWord(Peek(toks, pos + 1)) THEN Fail(ps, pos + 1, "unexpected_char")
  ELSE IF Peek(toks, pos + 1).s \notin DOMAIN structor_ids(ps, p)
    THEN Fail(ps, pos + 2, "unknown_name")
  ELSE (CHOOSE picked \in {(
      IF args.ps.err # "" THEN args
         ELSE IF Len(args.node) # structor_arities(ps, p, Peek(toks, pos + 1).s).arity
           THEN Fail(args.ps, args.pos, "arity_mismatch")
         ELSE (CHOOSE picked \in {(
             IF coargs.ps.err # "" THEN coargs
                ELSE IF Len(coargs.node)
                          # structor_arities(ps, p, Peek(toks, pos + 1).s).coarity
                  THEN Fail(coargs.ps, coargs.pos, "arity_mismatch")
                ELSE Expect(coargs, toks, ")",
                            [id |-> structor_ids(ps, p)[Peek(toks, pos + 1).s],
                             args |-> args.node, coargs |-> coargs.node])
           ) : coargs \in {parse_list(args.ps, toks, args.pos, "Consumer", "none")}} : TRUE)
    ) : args \in {parse_list(ps, toks, pos + 2, "Producer", "none")}} : TRUE)

\* Parser::parse_structor; node is [id, args, coargs].  A (co)argument list is
\* read only when the structor's (co)arity is positive
parse_structor(ps, toks, pos, p) ==
  IF Peek(toks, pos).t # "(" THEN Fail(ps, pos, "unexpected_char")
  ELSE IF ~IsWord(Peek(toks, pos + 1)) THEN Fail(ps, pos + 1, "unexpected_char")
  ELSE IF Peek(toks, pos + 1).s \notin DOMAIN structor_ids(ps, p)
    THEN Fail(ps, pos + 2, "unknown_name")
  ELSE (CHOOSE picked \in {(
      IF args.ps.err # "" THEN args
         ELSE IF Len(args.node) # structor_arities(ps, p, Peek(toks, pos + 1).s).arity
           THEN Fail(args.ps, args.pos, "arity_mismatch")
         ELSE (CHOOSE picked \in {(
             IF coargs.ps.err # "" THEN coargs
                ELSE IF Len(coargs.node)
                          # structor_arities(ps, p, Peek(toks, pos + 1).s).coarity
                  THEN Fail(coargs.ps, coargs.pos, "arity_mismatch")
                ELSE Expect(coargs, toks, ")",
                            [id |-> structor_ids(ps, p)[Peek(toks, pos + 1).s],
                             args |-> args.node, coargs |-> coargs.node])
           ) : coargs \in {IF structor_arities(ps, p, Peek(toks, pos + 1).s).coarity > 0
                   THEN parse_list(args.ps, toks, args.pos, "Consumer", "none")
                   ELSE R(args.ps, args.pos, <<>>)}} : TRUE)
    ) : args \in {IF structor_arities(ps, p, Peek(toks, pos + 1).s).arity > 0
            THEN parse_list(ps, toks, pos + 2, "Producer", "none")
            ELSE R(ps, pos + 2, <<>>)}} : TRUE)

\* Parser::parse_constructor
parse_constructor(ps, toks, pos) ==
  (CHOOSE picked \in {(
      IF r.ps.err # "" THEN r
    ELSE [r EXCEPT !.node = Constructor_prod(r.node.id, r.node.args, r.node.coargs)]
    ) : r \in {parse_structor(ps, toks, pos, "producer")}} : TRUE)

\* Parser::parse_destructor
parse_destructor(ps, toks, pos) ==
  (CHOOSE picked \in {(
      IF r.ps.err # "" THEN r
    ELSE [r EXCEPT !.node = Destructor_cons(r.node.id, r.node.args, r.node.coargs)]
    ) : r \in {parse_structor(ps, toks, pos, "consumer")}} : TRUE)

\* the part of parse_clause after the parameter lists are read
clause_body(structor_id, arg_names, coarg_names, toks) ==
  (CHOOSE picked \in {(
      (CHOOSE picked \in {(
      (CHOOSE picked \in {(
      IF body.ps.err # "" THEN body
    ELSE Expect(R([body.ps EXCEPT
                     !.var_ctx = unbind_names(@, arg_names.node, 1),
                     !.covar_ctx = unbind_names(@, coarg_names.node, 1)],
                  body.pos, Moved),
                toks, ")",
                Clause(structor_id, bvars.ids, bcovars.ids, body.node))
    ) : body \in {parse([coarg_names.ps EXCEPT !.var_ctx = bvars.map, !.n_vars_ = bvars.n,
                         !.covar_ctx = bcovars.map, !.n_covars_ = bcovars.n],
             toks, coarg_names.pos, "Statement", "none")}} : TRUE)
    ) : bcovars \in {bind_names(coarg_names.ps.covar_ctx, coarg_names.ps.n_covars_, coarg_names.node, 1)}} : TRUE)
    ) : bvars \in {bind_names(coarg_names.ps.var_ctx, coarg_names.ps.n_vars_, arg_names.node, 1)}} : TRUE)

\* Parser::parse_clause; p is "producer" for a cocase clause (a destructor
\* pattern), "consumer" for a case clause (a constructor pattern)
parse_clause(ps, toks, pos, p) ==
  IF Peek(toks, pos).t # "(" THEN Fail(ps, pos, "unexpected_char")
  ELSE IF ~IsWord(Peek(toks, pos + 1)) THEN Fail(ps, pos + 1, "unexpected_char")
  ELSE IF Peek(toks, pos + 1).s \notin DOMAIN structor_ids(ps, dual(p))
    THEN Fail(ps, pos + 2, "unknown_name")
  ELSE (CHOOSE picked \in {(
      IF arg_names.ps.err # "" THEN arg_names
         ELSE IF Len(arg_names.node)
                   # structor_arities(ps, dual(p), Peek(toks, pos + 1).s).arity
           THEN Fail(arg_names.ps, arg_names.pos, "arity_mismatch")
         ELSE (CHOOSE picked \in {(
             IF coarg_names.ps.err # "" THEN coarg_names
                ELSE IF Len(coarg_names.node)
                          # structor_arities(ps, dual(p), Peek(toks, pos + 1).s).coarity
                  THEN Fail(coarg_names.ps, coarg_names.pos, "arity_mismatch")
                ELSE clause_body(structor_ids(ps, dual(p))[Peek(toks, pos + 1).s],
                                 arg_names, coarg_names, toks)
           ) : coarg_names \in {IF structor_arities(ps, dual(p), Peek(toks, pos + 1).s).coarity > 0
                   THEN parse_list(arg_names.ps, toks, arg_names.pos, "string", "none")
                   ELSE R(arg_names.ps, arg_names.pos, <<>>)}} : TRUE)
    ) : arg_names \in {IF structor_arities(ps, dual(p), Peek(toks, pos + 1).s).arity > 0
            THEN parse_list(ps, toks, pos + 2, "string", "none")
            ELSE R(ps, pos + 2, <<>>)}} : TRUE)

\* the loop of parse_clauses over the clauses and the check after it: the
\* message of the Parse_exception thrown, "" when none
RECURSIVE clause_check(_, _, _)
\* a parse_clauses that takes every clause list that is not empty
clause_check_lax(clauses, expected_structors, i) == ""

clause_check(clauses, expected_structors, i) ==
  IF i > Len(clauses)
    THEN (IF expected_structors # {} THEN "incomplete clause list" ELSE "")
  ELSE IF clauses[i].abstraction_id \notin expected_structors
    THEN "Duplicate or mismatched structor"
  ELSE clause_check(clauses, expected_structors \ {clauses[i].abstraction_id}, i + 1)

\* Parser::parse_clauses
parse_clauses(ps, toks, pos, p) ==
  (CHOOSE picked \in {(
      IF clauses.ps.err # "" THEN clauses
    ELSE IF clauses.node = <<>> THEN Fail(clauses.ps, clauses.pos, "empty clause list")
    ELSE (CHOOSE picked \in {(
        IF problem # "" THEN Fail(clauses.ps, clauses.pos, problem) ELSE clauses
      ) : problem \in {clause_check(clauses.node,
                           structors_like(clauses.ps.ctx, clauses.node[1].abstraction_id),
                           1)}} : TRUE)
    ) : clauses \in {parse_list(ps, toks, pos, "Clause", p)}} : TRUE)

\* Parser::parse_cocase
parse_cocase(ps, toks, pos) ==
  IF Peek(toks, pos).t # "(" THEN Fail(ps, pos, "unexpected_char")
  ELSE IF Peek(toks, pos + 1).s # "cocase" THEN Fail(ps, pos + 1, "unexpected_char")
  ELSE (CHOOSE picked \in {(
      Expect(clauses, toks, ")", Cocase_prod(clauses.node))
    ) : clauses \in {parse_clauses(ps, toks, pos + 2, "producer")}} : TRUE)

\* Parser::parse_case
parse_case(ps, toks, pos) ==
  IF Peek(toks, pos).t # "(" THEN Fail(ps, pos, "unexpected_char")
  ELSE IF Peek(toks, pos + 1).s # "case" THEN Fail(ps, pos + 1, "unexpected_char")
  ELSE (CHOOSE picked \in {(
      Expect(clauses, toks, ")", Case_cons(clauses.node))
    ) : clauses \in {parse_clauses(ps, toks, pos + 2, "consumer")}} : TRUE)

\* Parser::parse_arithmetic
parse_arithmetic(ps, toks, pos) ==
  IF Peek(toks, pos).t # "(" THEN Fail(ps, pos, "unexpected_char")
  ELSE IF Peek(toks, pos + 1).t # "o" THEN Fail(ps, pos + 1, "unexpected_char")
  ELSE (CHOOSE picked \in {(
      IF left.ps.err # "" THEN left
         ELSE (CHOOSE picked \in {(
             IF right.ps.err # "" THEN right
                ELSE (CHOOSE picked \in {(
                    Expect(after, toks, ")",
                              Arithmetic_stmt(Peek(toks, pos + 1).s, left.node, right.node,
                                              after.node))
                  ) : after \in {parse(right.ps, toks, right.pos, "Consumer", "none")}} : TRUE)
           ) : right \in {parse(left.ps, toks, left.pos, "Producer", "none")}} : TRUE)
    ) : left \in {parse(ps, toks, pos + 2, "Producer", "none")}} : TRUE)

\* Parser::parse_ifz
parse_ifz(ps, toks, pos) ==
  IF Peek(toks, pos).t # "(" THEN Fail(ps, pos, "unexpected_char")
  ELSE IF Peek(toks, pos + 1).s # "ifz" THEN Fail(ps, pos + 1, "unexpected_char")
  ELSE (CHOOSE picked \in {(
      IF condition.ps.err # "" THEN condition
         ELSE (CHOOSE picked \in {(
             IF if_zero.ps.err # "" THEN if_zero
                ELSE (CHOOSE picked \in {(
                    Expect(if_other, toks, ")",
                              Ifz_stmt(condition.node, if_zero.node, if_other.node))
                  ) : if_other \in {parse(if_zero.ps, toks, if_zero.pos, "Statement", "none")}} : TRUE)
           ) : if_zero \in {parse(condition.ps, toks, condition.pos, "Statement", "none")}} : TRUE)
    ) : condition \in {parse(ps, toks, pos + 2, "Producer", "none")}} : TRUE)

\* Parser::parse_cut
parse_cut(ps, toks, pos) ==
  IF Peek(toks, pos).t # "[" THEN Fail(ps, pos, "unexpected_char")
  ELSE (CHOOSE picked \in {(
      IF producer.ps.err # "" THEN producer
         ELSE (CHOOSE picked \in {(
             Expect(consumer, toks, "]", Cut_stmt(producer.node, consumer.node))
           ) : consumer \in {parse(producer.ps, toks, producer.pos, "Consumer", "none")}} : TRUE)
    ) : producer \in {parse(ps, toks, pos + 1, "Producer", "none")}} : TRUE)

\* Parser::parse_call: the name must already be in def_ids
parse_call(ps, toks, pos) ==
  IF Peek(toks, pos).t # "(" THEN Fail(ps, pos, "unexpected_char")
  ELSE IF ~IsWord(Peek(toks, pos + 1)) THEN Fail(ps, pos + 1, "unexpected_char")
  ELSE IF Peek(toks, pos + 1).s \notin DOMAIN ps.def_ids
    THEN Fail(ps, pos + 2, "unknown_name")
  ELSE (CHOOSE picked \in {(
      IF args.ps.err # "" THEN args
         ELSE (CHOOSE picked \in {(
             IF coargs.ps.err # "" THEN coargs
                ELSE IF Len(args.node) # definition_arities(ps, Peek(toks, pos + 1).s).arity
                  THEN Fail(coargs.ps, coargs.pos, "arity_mismatch")
                ELSE IF Len(coargs.node)
                          # definition_arities(ps, Peek(toks, pos + 1).s).coarity
                  THEN Fail(coargs.ps, coargs.pos, "arity_mismatch")
                ELSE Expect(coargs, toks, ")",
                            Call_stmt(ps.def_ids[Peek(toks, pos + 1).s], args.node,
                                      coargs.node))
           ) : coargs \in {parse_list(args.ps, toks, args.pos, "Consumer", "none")}} : TRUE)
    ) : args \in {parse_list(ps, toks, pos + 2, "Producer", "none")}} : TRUE)

\* Parser::parse_producer
parse_producer(ps, toks, pos) ==
  IF Peek(toks, pos).t = "a" THEN parse_variable(ps, toks, pos)
  ELSE IF Peek(toks, pos).t = "n" \/ (Peek(toks, pos).t = "o" /\ Peek(toks, pos).s = "-")
    THEN parse_value(ps, toks, pos)
  ELSE IF Peek(toks, pos).t # "(" THEN Fail(ps, pos, "unexpected_char")
  ELSE IF Peek(toks, pos + 1).s = "mu" THEN parse_mu_p(ps, toks, pos)
  ELSE IF Peek(toks, pos + 1).s = "cocase" THEN parse_cocase(ps, toks, pos)
  ELSE parse_constructor(ps, toks, pos)

\* Parser::parse_consumer
parse_consumer(ps, toks, pos) ==
  IF Peek(toks, pos).t = "a" THEN parse_covariable(ps, toks, pos)
  ELSE IF Peek(toks, pos).t = "e" THEN parse_end(ps, toks, pos)
  ELSE IF Peek(toks, pos).t # "(" THEN Fail(ps, pos, "unexpected_char")
  ELSE IF Peek(toks, pos + 1).s = "mu'" THEN parse_mu_c(ps, toks, pos)
  ELSE IF Peek(toks, pos + 1).s = "case" THEN parse_case(ps, toks, pos)
  ELSE parse_destructor(ps, toks, pos)

\* Parser::parse_statement
parse_statement(ps, toks, pos) ==
  IF Peek(toks, pos).t = "[" THEN parse_cut(ps, toks, pos)
  ELSE IF Peek(toks, pos).t # "(" THEN Fail(ps, pos, "unexpected_char")
  ELSE IF Peek(toks, pos + 1).t = "o" THEN parse_arithmetic(ps, toks, pos)
  ELSE IF Peek(toks, pos + 1).t = "a"
    THEN (IF Peek(toks, pos + 1).s = "ifz" THEN parse_ifz(ps, toks, pos)
          ELSE parse_call(ps, toks, pos))
  ELSE Fail(ps, pos + 1, "unexpected_char")

\* Parser::parse<T>: one element of a list, and parse_statement.  read_word
\* on a delimiter returns the empty word and consumes nothing, so
\* parse_list<std::string> never leaves its loop there: "no_progress"
parse(ps, toks, pos, T, p) ==
  IF T = "Producer" THEN parse_producer(ps, toks, pos)
  ELSE IF T = "Consumer" THEN parse_consumer(ps, toks, pos)
  ELSE IF T = "Statement" THEN parse_statement(ps, toks, pos)
  ELSE IF T = "Clause" THEN parse_clause(ps, toks, pos, p)
  ELSE IF IsWord(Peek(toks, pos)) THEN R(ps, pos + 1, Peek(toks, pos).s)
  ELSE Fail(ps, pos, "no_progress")

\* the while (true) loop of parse_list
parse_list_items(ps, toks, pos, T, p) ==
  IF Peek(toks, pos).t = ")" THEN R(ps, pos + 1, <<>>)
  ELSE IF Peek(toks, pos).t = "eof" THEN Fail(ps, pos, "unexpected_char")
  ELSE (CHOOSE picked \in {(
      IF one.ps.err # "" THEN one
         ELSE (CHOOSE picked \in {(
             IF rest.ps.err # "" THEN rest
                ELSE [rest EXCEPT !.node = <<one.node>> \o @]
           ) : rest \in {parse_list_items(one.ps, toks, one.pos, T, p)}} : TRUE)
    ) : one \in {parse(ps, toks, pos, T, p)}} : TRUE)

\* the part of parse_definition after the parameter lists are read
definition_body(name, def_id, arg_names, coarg_names, toks) ==
  (CHOOSE picked \in {(
      (CHOOSE picked \in {(
      (CHOOSE picked \in {(
      IF body.ps.err # "" THEN body
    ELSE Expect(R([body.ps EXCEPT
                     !.var_ctx = unbind_names(@, arg_names.node, 1),
                     !.covar_ctx = unbind_names(@, coarg_names.node, 1)],
                  body.pos, Moved),
                toks, ")",
                Definition(Len(coarg_names.ps.ctx.abstractions), bvars.ids, bcovars.ids,
                           body.node))
    ) : body \in {parse([coarg_names.ps EXCEPT
                !.var_ctx = bvars.map, !.n_vars_ = bvars.n,
                !.covar_ctx = bcovars.map, !.n_covars_ = bcovars.n,
                !.def_arity = Append(@, [arity |-> Len(bvars.ids),
                                         coarity |-> Len(bcovars.ids)]),
                !.ctx = add_definition(@, name.s, Len(bvars.ids), Len(bcovars.ids))],
             toks, coarg_names.pos, "Statement", "none")}} : TRUE)
    ) : bcovars \in {bind_names(coarg_names.ps.covar_ctx, coarg_names.ps.n_covars_, coarg_names.node, 1)}} : TRUE)
    ) : bvars \in {bind_names(coarg_names.ps.var_ctx, coarg_names.ps.n_vars_, arg_names.node, 1)}} : TRUE)

\* Parser::parse_definition: the name is registered before the body is read
parse_definition(ps, toks, pos) ==
  IF Peek(toks, pos).t # "(" THEN Fail(ps, pos, "unexpected_char")
  ELSE IF Peek(toks, pos + 1).s # "def" THEN Fail(ps, pos + 1, "unexpected_char")
  ELSE IF ~IsWord(Peek(toks, pos + 2)) THEN Fail(ps, pos + 2, "unexpected_char")
  ELSE IF Peek(toks, pos + 2).s \in DOMAIN ps.def_ids
    THEN Fail(ps, pos + 3, "Repeated definition")
  ELSE IF Peek(toks, pos + 2).s = "ifz" THEN Fail(ps, pos + 3, "reserved name")
  ELSE (CHOOSE picked \in {(
      IF arg_names.ps.err # "" THEN arg_names
         ELSE (CHOOSE picked \in {(
             IF coarg_names.ps.err # "" THEN coarg_names
                ELSE definition_body(Peek(toks, pos + 2), ps.n_defs, arg_names,
                                     coarg_names, toks)
           ) : coarg_names \in {parse_list(arg_names.ps, toks, arg_names.pos, "string", "none")}} : TRUE)
    ) : arg_names \in {parse_list([ps EXCEPT !.n_defs = @ + 1,
                                  !.def_ids = MapPut(@, Peek(toks, pos + 2).s, ps.n_defs)],
                       toks, pos + 3, "string", "none")}} : TRUE)

\* the while (!input.eof()) loop of parse_program; node is the Program
RECURSIVE parse_program_loop(_, _, _, _)
parse_program_loop(ps, toks, pos, program) ==
  IF Peek(toks, pos).t = "eof" THEN R(ps, pos, program)
  ELSE IF Peek(toks, pos).t \notin {"[", "("} THEN Fail(ps, pos, "unexpected_char")
  ELSE (CHOOSE picked \in {(
      IF one.ps.err # "" THEN one
         ELSE parse_program_loop(
                one.ps, toks, one.pos,
                IF Peek(toks, pos).t = "(" /\ Peek(toks, pos + 1).s = "def"
                  THEN [program EXCEPT !.definitions = Append(@, one.node)]
                ELSE [program EXCEPT !.statements = Append(@, one.node)])
    ) : one \in {IF Peek(toks, pos).t = "[" THEN parse_cut(ps, toks, pos)
            ELSE IF Peek(toks, pos + 1).s = "def" THEN parse_definition(ps, toks, pos)
            ELSE parse_statement(ps, toks, pos)}} : TRUE)

\* Parser::parse_program
parse_program(ps, toks) ==
  parse_program_loop(ps, toks, 1, [definitions |-> <<>>, statements |-> <<>>])

(***************************************************************************)
(* Typer.h / Typer.cpp : the type checker.  Every check takes the typer    *)
(* and a node and returns [ts, node]: the typer after the call and the     *)
(* node with the type slots the call assigned.  A thrown                   *)
(* Single_typing_exception is ts.err # "" (the kind of its cause), with    *)
(* ts.context the kind of the syntax element it carries; every caller      *)
(* passes it on, so nothing after the throw is executed.  ts.thrown counts *)
(* the exceptions constructed in try_unify and ts.checked the calls of     *)
(* check that type_program makes; nothing reads them.                      *)
(***************************************************************************)
TR(ts, node) == [ts |-> ts, node |-> node]

\* Typer::Typer; definitions holds what check reads of the referenced vector
Typer(cx, definitions) ==
  [ctx |-> cx,
   definitions |-> [i \in 1..Len(definitions) |-> definitions[i].abstraction_id],
   int_type |-> get_primitive_prototype(cx, integer),
   var_types |-> <<>>, covar_types |-> <<>>, current_definition |-> None,
   err |-> "", context |-> "", thrown |-> 0, checked |-> 0]

\* std::map::operator[]: an absent key reads as a value-initialised handle
HandleAt(m, id) == IF id \in DOMAIN m THEN m[id] ELSE 0

\* a try_unify that never throws and binds nothing: a typer that accepts
\* every pair of types
try_unify_accepting(ts, a, b, context) == ts

\* Typer::try_unify
try_unify(ts, a, b, context) ==
  (CHOOSE picked \in {(
      IF u.err = "" THEN [ts EXCEPT !.ctx.types = u.types]
    ELSE [ts EXCEPT !.ctx.types = u.types, !.err = u.err, !.context = context,
                    !.thrown = @ + 1]
    ) : u \in {unify(ts.ctx.types, a, b)}} : TRUE)

\* Typer::fresh_var: emplace keeps an existing entry, the type variable is
\* allocated either way
fresh_var(ts, id) ==
  [ts EXCEPT !.var_types = IF id \in DOMAIN @ THEN @
                           ELSE MapPut(@, id, Len(ts.ctx.types)),
             !.ctx.types = fresh_type_variable(@)]

\* Typer::fresh_covar
fresh_covar(ts, id) ==
  [ts EXCEPT !.covar_types = IF id \in DOMAIN @ THEN @
                             ELSE MapPut(@, id, Len(ts.ctx.types)),
             !.ctx.types = fresh_type_variable(@)]

\* the loops "for (auto& arg : arg_ids) fresh_var(arg)"
RECURSIVE fresh_vars(_, _, _)
fresh_vars(ts, ids, i) ==
  IF i > Len(ids) THEN ts ELSE fresh_vars(fresh_var(ts, ids[i]), ids, i + 1)

\* the loops "for (auto& coarg : coarg_ids) fresh_covar(coarg)"
RECURSIVE fresh_covars(_, _, _)
fresh_covars(ts, ids, i) ==
  IF i > Len(ids) THEN ts ELSE fresh_covars(fresh_covar(ts, ids[i]), ids, i + 1)

\* the loops that unify each bound (co)variable's type with a signature handle
RECURSIVE unify_params_with(_, _, _, _, _, _)
unify_params_with(ts, map, ids, handles, i, context) ==
  IF i > Len(handles) \/ ts.err # "" THEN ts
  ELSE unify_params_with(try_unify(ts, HandleAt(map, ids[i]), handles[i], context),
                         map, ids, handles, i + 1, context)

\* a check_abstraction that takes a fresh instance for every call, the calls
\* of the definition being checked included
abstraction_instance_generalised(ts, id) == instantiate(ts.ctx, ts.ctx.types, id)

\* the head of check_abstraction: the prototype itself for a call of the
\* definition being checked, a fresh instance otherwise; returns [types, inst]
abstraction_instance(ts, id) ==
  IF ts.current_definition = id
    THEN [types |-> ts.ctx.types, inst |-> get_abstraction_prototype(ts.ctx, id)]
  ELSE instantiate(ts.ctx, ts.ctx.types, id)

\* check(ts, K, node, type) is the overload of Typer::check for a K: "Producer",
\* "Consumer", "Statement" (type unused) or "Clause"
RECURSIVE check(_, _, _, _)

\* the loops of check_abstraction over the arguments (K "Producer") and the
\* coarguments (K "Consumer")
RECURSIVE check_all(_, _, _, _, _)
check_all(ts, K, nodes, handles, i) ==
  IF i > Len(handles) \/ ts.err # "" THEN TR(ts, nodes)
  ELSE (CHOOSE picked \in {(
      check_all(one.ts, K, [nodes EXCEPT ![i] = one.node], handles, i + 1)
    ) : one \in {check(ts, K, nodes[i], handles[i])}} : TRUE)

check_args(ts, args, handles, i) == check_all(ts, "Producer", args, handles, i)

check_coargs(ts, coargs, handles, i) == check_all(ts, "Consumer", coargs, handles, i)

\* the loops "for (auto& clause : clauses) check(clause, type)"
RECURSIVE check_clauses(_, _, _, _)
check_clauses(ts, clauses, type, i) ==
  IF i > Len(clauses) \/ ts.err # "" THEN TR(ts, clauses)
  ELSE (CHOOSE picked \in {(
      check_clauses(one.ts, [clauses EXCEPT ![i] = one.node], type, i + 1)
    ) : one \in {check(ts, "Clause", clauses[i], type)}} : TRUE)

\* Typer::check_abstraction; returns [ts, args, coargs, type]
check_abstraction(ts, id, args, coargs, context, type) ==
  (CHOOSE picked \in {(
      (CHOOSE picked \in {(
      (CHOOSE picked \in {(
      [ts |-> IF c.ts.err = "" /\ type # None
            THEN try_unify(c.ts, type, got.inst.type, context) ELSE c.ts,
     args |-> a.node, coargs |-> c.node, type |-> got.inst.type]
    ) : c \in {check_coargs(a.ts, coargs, got.inst.coargs, 1)}} : TRUE)
    ) : a \in {check_args([ts EXCEPT !.ctx.types = got.types], args, got.inst.args, 1)}} : TRUE)
    ) : got \in {abstraction_instance(ts, id)}} : TRUE)

\* Typer::check(Producer&, Strong_type_handle)
check_producer(ts, prod, type) ==
  IF prod.k = "Variable_prod"
    THEN (CHOOSE picked \in {(
        IF u.err # "" THEN TR(u, prod)
           ELSE TR(u, [prod EXCEPT !.type = HandleAt(u.var_types, prod.var_id)])
      ) : u \in {try_unify(ts, type, HandleAt(ts.var_types, prod.var_id), prod.k)}} : TRUE)
  ELSE IF prod.k = "Value_prod"
    THEN (CHOOSE picked \in {(
        IF u.err # "" THEN TR(u, prod)
           ELSE TR(u, [prod EXCEPT !.type = ts.int_type])
      ) : u \in {try_unify(ts, type, ts.int_type, prod.k)}} : TRUE)
  ELSE IF prod.k = "Mu_prod"
    THEN (CHOOSE picked \in {(
        (CHOOSE picked \in {(
             IF u.err # "" THEN TR(u, prod)
           ELSE (CHOOSE picked \in {(
               IF b.ts.err # "" THEN TR(b.ts, [prod EXCEPT !.body = b.node])
                  ELSE TR(b.ts, [prod EXCEPT !.body = b.node,
                                             !.type = HandleAt(b.ts.covar_types,
                                                               prod.coarg_id)])
             ) : b \in {check(u, "Statement", prod.body, None)}} : TRUE)
           ) : u \in {try_unify(f, type, HandleAt(f.covar_types, prod.coarg_id), prod.k)}} : TRUE)
      ) : f \in {fresh_covar(ts, prod.coarg_id)}} : TRUE)
  ELSE IF prod.k = "Constructor_prod"
    THEN (CHOOSE picked \in {(
        TR(r.ts, [prod EXCEPT !.args = r.args, !.coargs = r.coargs,
                                 !.type = IF r.ts.err = "" THEN r.type ELSE @])
      ) : r \in {check_abstraction(ts, prod.abstraction_id, prod.args, prod.coargs,
                                prod.k, type)}} : TRUE)
  ELSE \* Cocase_prod: the clauses are checked, the type slot is not assigned
       (CHOOSE picked \in {(
           TR(r.ts, [prod EXCEPT !.clauses = r.node])
         ) : r \in {check_clauses(ts, prod.clauses, type, 1)}} : TRUE)

\* Typer::check(Consumer&, Strong_type_handle)
check_consumer(ts, cons, type) ==
  IF cons.k = "Covariable_cons"
    THEN (CHOOSE picked \in {(
        IF u.err # "" THEN TR(u, cons)
           ELSE TR(u, [cons EXCEPT !.type = HandleAt(u.covar_types, cons.covar_id)])
      ) : u \in {try_unify(ts, type, HandleAt(ts.covar_types, cons.covar_id), cons.k)}} : TRUE)
  ELSE IF cons.k = "Mu_cons"
    THEN (CHOOSE picked \in {(
        (CHOOSE picked \in {(
             IF u.err # "" THEN TR(u, cons)
           ELSE (CHOOSE picked \in {(
               IF b.ts.err # "" THEN TR(b.ts, [cons EXCEPT !.body = b.node])
                  ELSE TR(b.ts, [cons EXCEPT !.body = b.node,
                                             !.type = HandleAt(b.ts.var_types,
                                                               cons.arg_id)])
             ) : b \in {check(u, "Statement", cons.body, None)}} : TRUE)
           ) : u \in {try_unify(f, type, HandleAt(f.var_types, cons.arg_id), cons.k)}} : TRUE)
      ) : f \in {fresh_var(ts, cons.arg_id)}} : TRUE)
  ELSE IF cons.k = "Destructor_cons"
    THEN (CHOOSE picked \in {(
        TR(r.ts, [cons EXCEPT !.args = r.args, !.coargs = r.coargs,
                                 !.type = IF r.ts.err = "" THEN r.type ELSE @])
      ) : r \in {check_abstraction(ts, cons.abstraction_id, cons.args, cons.coargs,
                                cons.k, type)}} : TRUE)
  ELSE IF cons.k = "Case_cons"
    THEN \* the clauses are checked, the type slot is not assigned
         (CHOOSE picked \in {(
             TR(r.ts, [cons EXCEPT !.clauses = r.node])
           ) : r \in {check_clauses(ts, cons.clauses, type, 1)}} : TRUE)
  ELSE \* End_cons
       TR(ts, [cons EXCEPT !.type = type])

\* Typer::check(Statement&)
check_statement(ts, stmt) ==
  IF stmt.k = "Arithmetic_stmt"
    THEN (CHOOSE picked \in {(
        IF l.ts.err # "" THEN TR(l.ts, [stmt EXCEPT !.left = l.node])
           ELSE (CHOOSE picked \in {(
               IF r.ts.err # ""
                    THEN TR(r.ts, [stmt EXCEPT !.left = l.node, !.right = r.node])
                  ELSE (CHOOSE picked \in {(
                      TR(a.ts, [stmt EXCEPT !.left = l.node, !.right = r.node,
                                               !.after = a.node])
                    ) : a \in {check(r.ts, "Consumer", stmt.after, ts.int_type)}} : TRUE)
             ) : r \in {check(l.ts, "Producer", stmt.right, ts.int_type)}} : TRUE)
      ) : l \in {check(ts, "Producer", stmt.left, ts.int_type)}} : TRUE)
  ELSE IF stmt.k = "Ifz_stmt"
    THEN (CHOOSE picked \in {(
        IF c.ts.err # "" THEN TR(c.ts, [stmt EXCEPT !.condition = c.node])
           ELSE (CHOOSE picked \in {(
               IF z.ts.err # ""
                    THEN TR(z.ts, [stmt EXCEPT !.condition = c.node,
                                               !.if_zero = z.node])
                  ELSE (CHOOSE picked \in {(
                      TR(o.ts, [stmt EXCEPT !.condition = c.node,
                                               !.if_zero = z.node,
                                               !.if_other = o.node])
                    ) : o \in {check(z.ts, "Statement", stmt.if_other, None)}} : TRUE)
             ) : z \in {check(c.ts, "Statement", stmt.if_zero, None)}} : TRUE)
      ) : c \in {check(ts, "Producer", stmt.condition, ts.int_type)}} : TRUE)
  ELSE IF stmt.k = "Cut_stmt"
    THEN (CHOOSE picked \in {(
        (CHOOSE picked \in {(
             IF p.ts.err # "" THEN TR(p.ts, [stmt EXCEPT !.producer = p.node])
           ELSE (CHOOSE picked \in {(
               TR(c.ts, [stmt EXCEPT !.producer = p.node, !.consumer = c.node])
             ) : c \in {check(p.ts, "Consumer", stmt.consumer, cut_type)}} : TRUE)
           ) : p \in {check([ts EXCEPT !.ctx.types = fresh_type_variable(@)], "Producer",
                    stmt.producer, cut_type)}} : TRUE)
      ) : cut_type \in {Len(ts.ctx.types)}} : TRUE)
  ELSE \* Call_stmt
       (CHOOSE picked \in {(
           TR(r.ts, [stmt EXCEPT !.args = r.args, !.coargs = r.coargs])
         ) : r \in {check_abstraction(ts, ts.definitions[stmt.definition_id + 1],
                              stmt.args, stmt.coargs, stmt.k, None)}} : TRUE)

\* Typer::check(Clause&, Strong_type_handle)
check_clause(ts, clause, type) ==
  (CHOOSE picked \in {(
      (CHOOSE picked \in {(
      (CHOOSE picked \in {(
      (CHOOSE picked \in {(
      (CHOOSE picked \in {(
      IF c.err # "" THEN TR(c, clause)
    ELSE (CHOOSE picked \in {(
        TR(b.ts, [clause EXCEPT !.body = b.node])
      ) : b \in {check(c, "Statement", clause.body, None)}} : TRUE)
    ) : c \in {unify_params_with(a, a.covar_types, clause.coarg_ids, got.inst.coargs, 1,
                         "Clause")}} : TRUE)
    ) : a \in {unify_params_with(u, u.var_types, clause.arg_ids, got.inst.args, 1, "Clause")}} : TRUE)
    ) : u \in {try_unify([bound EXCEPT !.ctx.types = got.types], type, got.inst.type, "Clause")}} : TRUE)
    ) : got \in {instantiate(bound.ctx, bound.ctx.types, clause.abstraction_id)}} : TRUE)
    ) : bound \in {fresh_covars(fresh_vars(ts, clause.arg_ids, 1), clause.coarg_ids, 1)}} : TRUE)

check(ts, K, node, type) ==
  IF K = "Producer" THEN check_producer(ts, node, type)
  ELSE IF K = "Consumer" THEN check_consumer(ts, node, type)
  ELSE IF K = "Statement" THEN check_statement(ts, node)
  ELSE check_clause(ts, node, type)

\* Typer::check(Definition&): current_definition is reset on normal return only
check_definition(ts, definition) ==
  (CHOOSE picked \in {(
      (CHOOSE picked \in {(
      (CHOOSE picked \in {(
      (CHOOSE picked \in {(
      (CHOOSE picked \in {(
      IF c.err # "" THEN TR(c, definition)
    ELSE (CHOOSE picked \in {(
        IF b.ts.err # "" THEN TR(b.ts, [definition EXCEPT !.body = b.node])
           ELSE TR([b.ts EXCEPT !.current_definition = None],
                   [definition EXCEPT !.body = b.node])
      ) : b \in {check(c, "Statement", definition.body, None)}} : TRUE)
    ) : c \in {unify_params_with(a, a.covar_types, definition.coarg_ids,
                         abstraction.coargs, 1, "Definition")}} : TRUE)
    ) : a \in {unify_params_with(noted, noted.var_types, definition.arg_ids,
                         abstraction.args, 1, "Definition")}} : TRUE)
    ) : noted \in {[bound EXCEPT !.current_definition = definition.abstraction_id]}} : TRUE)
    ) : abstraction \in {bound.ctx.abstractions[definition.abstraction_id + 1]}} : TRUE)
    ) : bound \in {fresh_covars(fresh_vars(ts, definition.arg_ids, 1), definition.coarg_ids, 1)}} : TRUE)

\* the catch clauses of type_program
push_error(errors, ts) ==
  IF ts.err = "" THEN errors
  ELSE Append(errors, [cause |-> ts.err, context |-> ts.context])

\* the first loop of type_program; returns [ts, node, errors]
RECURSIVE type_definitions(_, _, _, _)
type_definitions(ts, definitions, i, errors) ==
  IF i > Len(definitions) THEN [ts |-> ts, node |-> definitions, errors |-> errors]
  ELSE (CHOOSE picked \in {(
      type_definitions(one.ts, [definitions EXCEPT ![i] = one.node], i + 1,
                          push_error(errors, one.ts))
    ) : one \in {check_definition([ts EXCEPT !.err = "", !.checked = @ + 1], definitions[i])}} : TRUE)

\* the second loop of type_program; returns [ts, node, errors]
RECURSIVE type_statements(_, _, _, _)
\* a second loop that gives up once an error was collected
type_statements_stopping(ts, statements, i, errors) ==
  IF i > Len(statements) \/ errors # <<>>
    THEN [ts |-> ts, node |-> statements, errors |-> errors]
  ELSE (CHOOSE picked \in {(
      type_statements(one.ts, [statements EXCEPT ![i] = one.node], i + 1,
                         push_error(errors, one.ts))
    ) : one \in {check_statement([ts EXCEPT !.err = "", !.checked = @ + 1], statements[i])}} : TRUE)

type_statements(ts, statements, i, errors) ==
  IF i > Len(statements) THEN [ts |-> ts, node |-> statements, errors |-> errors]
  ELSE (CHOOSE picked \in {(
      type_statements(one.ts, [statements EXCEPT ![i] = one.node], i + 1,
                         push_error(errors, one.ts))
    ) : one \in {check_statement([ts EXCEPT !.err = "", !.checked = @ + 1], statements[i])}} : TRUE)

\* type_program; returns [ts, program, errors]: Multiple_typing_exception is
\* thrown iff errors is not empty
type_program(program, cx) ==
  (CHOOSE picked \in {(
      (CHOOSE picked \in {(
      [ts |-> s.ts, program |-> [definitions |-> d.node, statements |-> s.node],
     errors |-> s.errors]
    ) : s \in {type_statements(d.ts, program.statements, 1, d.errors)}} : TRUE)
    ) : d \in {type_definitions(Typer(cx, program.definitions), program.definitions, 1, <<>>)}} : TRUE)

(***************************************************************************)
(* Interpreter.h / Interpreter.cpp : the small-step interpreter.           *)
(* A Box that was moved from holds no object (Util.h); the variant around  *)
(* it keeps its alternative.  Reading through such a Box is undefined      *)
(* behaviour, which every build turns into a crash on the null pointer.    *)
(* step returns the SET of outcomes the builds can produce, each           *)
(* [it, k, node, info]: k is "Statement" or "Producer" for the two         *)
(* alternatives of Step_result, "stuck" for a Stuck_computation_exception  *)
(* and "crash" for the null dereference.                                   *)
(***************************************************************************)
Null(k) == [k |-> k, null |-> TRUE]

is_null(x) == "null" \in DOMAIN x

\* Interpreter::Interpreter
Interpreter(n_vars, n_covars, program) ==
  [n_vars |-> n_vars, n_covars |-> n_covars, definitions |-> program.definitions,
   statements |-> program.statements, finished |-> FALSE]

Out(it, k, node, info) == [it |-> it, k |-> k, node |-> node, info |-> info]

Stuck(it, stmt) == Out(it, "stuck", stmt, "")

Crash(it) == Out(it, "crash", Null("Statement"), "")

\* is_value; returns [v, node], node the producer with the caches it filled
RECURSIVE is_value(_)
RECURSIVE first_non_value(_, _)
is_value(prod) ==
  IF prod.k \in {"Value_prod", "Cocase_prod"} THEN [v |-> TRUE, node |-> prod]
  ELSE IF prod.k # "Constructor_prod" THEN [v |-> FALSE, node |-> prod]
  ELSE IF prod.is_value # "none" THEN [v |-> prod.is_value = "true", node |-> prod]
  ELSE (CHOOSE picked \in {(
      [v |-> scan.index = None,
          node |-> [prod EXCEPT !.args = scan.node,
                                !.is_value = IF scan.index = None THEN "true"
                                             ELSE "false"]]
    ) : scan \in {first_non_value(prod.args, 1)}} : TRUE)

\* std::find_if_not(args, is_value) / std::all_of(args, is_value): stops at the
\* first non-value; returns [index, node], index None when all are values
first_non_value(args, i) ==
  IF i > Len(args) THEN [index |-> None, node |-> args]
  ELSE (CHOOSE picked \in {(
      (CHOOSE picked \in {(
           IF one.v THEN first_non_value(scanned, i + 1)
         ELSE [index |-> i - 1, node |-> scanned]
         ) : scanned \in {[args EXCEPT ![i] = one.node]}} : TRUE)
    ) : one \in {is_value(args[i])}} : TRUE)

\* a find_non_value that returns the last argument that is not a value
find_non_value_last(args) ==
  [index |-> IF \A i \in 1..Len(args) : is_value(args[i]).v THEN None
             ELSE (CHOOSE i \in 1..Len(args) :
                     /\ ~is_value(args[i]).v
                     /\ \A j \in (i + 1)..Len(args) : is_value(args[j]).v) - 1,
   node |-> args]

\* Interpreter::find_non_value
find_non_value(args) == first_non_value(args, 1)

\* std::map::erase of several keys
MapEraseAll(m, ids) == MapErase(m, Range(ids))

\* Interpreter::replace, the four overloads
RECURSIVE replace_producer(_, _, _)
RECURSIVE replace_consumer(_, _, _)
RECURSIVE replace_statement(_, _, _)
RECURSIVE replace_clause(_, _, _)
\* a replace that leaves a cached false where it is
replace_producer_keeping(prod, var_map, covar_map) ==
  IF prod.k = "Variable_prod"
    THEN (IF prod.var_id \in DOMAIN var_map THEN var_map[prod.var_id] ELSE prod)
  ELSE IF prod.k = "Value_prod" THEN prod
  ELSE IF prod.k = "Mu_prod"
    THEN [prod EXCEPT !.body = replace_statement(@, var_map,
                                                 MapErase(covar_map, {prod.coarg_id}))]
  ELSE IF prod.k = "Constructor_prod"
    THEN [prod EXCEPT
            !.args = [i \in 1..Len(@) |-> replace_producer(@[i], var_map, covar_map)],
            !.coargs = [i \in 1..Len(@) |-> replace_consumer(@[i], var_map, covar_map)]]
  ELSE [prod EXCEPT
          !.clauses = [i \in 1..Len(@) |-> replace_clause(@[i], var_map, covar_map)]]

replace_producer(prod, var_map, covar_map) ==
  IF prod.k = "Variable_prod"
    THEN (IF prod.var_id \in DOMAIN var_map THEN var_map[prod.var_id] ELSE prod)
  ELSE IF prod.k = "Value_prod" THEN prod
  ELSE IF prod.k = "Mu_prod"
    THEN [prod EXCEPT !.body = replace_statement(@, var_map,
                                                 MapErase(covar_map, {prod.coarg_id}))]
  ELSE IF prod.k = "Constructor_prod"
    THEN [prod EXCEPT
            !.is_value = IF @ = "false" THEN "none" ELSE @,
            !.args = [i \in 1..Len(@) |-> replace_producer(@[i], var_map, covar_map)],
            !.coargs = [i \in 1..Len(@) |-> replace_consumer(@[i], var_map, covar_map)]]
  ELSE [prod EXCEPT
          !.clauses = [i \in 1..Len(@) |-> replace_clause(@[i], var_map, covar_map)]]

\* a replace that goes on under a MuTilde with the whole map
replace_consumer_unshadowed(cons, var_map, covar_map) ==
  IF cons.k = "Covariable_cons"
    THEN (IF cons.covar_id \in DOMAIN covar_map THEN covar_map[cons.covar_id] ELSE cons)
  ELSE IF cons.k = "Mu_cons"
    THEN [cons EXCEPT !.body = replace_statement(@, var_map, covar_map)]
  ELSE IF cons.k = "Destructor_cons"
    THEN [cons EXCEPT
            !.args = [i \in 1..Len(@) |-> replace_producer(@[i], var_map, covar_map)],
            !.coargs = [i \in 1..Len(@) |-> replace_consumer(@[i], var_map, covar_map)]]
  ELSE IF cons.k = "Case_cons"
    THEN [cons EXCEPT
            !.clauses = [i \in 1..Len(@) |-> replace_clause(@[i], var_map, covar_map)]]
  ELSE cons

replace_consumer(cons, var_map, covar_map) ==
  IF cons.k = "Covariable_cons"
    THEN (IF cons.covar_id \in DOMAIN covar_map THEN covar_map[cons.covar_id] ELSE cons)
  ELSE IF cons.k = "Mu_cons"
    THEN [cons EXCEPT !.body = replace_statement(@, MapErase(var_map, {cons.arg_id}),
                                                 covar_map)]
  ELSE IF cons.k = "Destructor_cons"
    THEN [cons EXCEPT
            !.args = [i \in 1..Len(@) |-> replace_producer(@[i], var_map, covar_map)],
            !.coargs = [i \in 1..Len(@) |-> replace_consumer(@[i], var_map, covar_map)]]
  ELSE IF cons.k = "Case_cons"
    THEN [cons EXCEPT
            !.clauses = [i \in 1..Len(@) |-> replace_clause(@[i], var_map, covar_map)]]
  ELSE cons

replace_statement(stmt, var_map, covar_map) ==
  IF stmt.k = "Arithmetic_stmt"
    THEN [stmt EXCEPT !.left = replace_producer(@, var_map, covar_map),
                      !.right = replace_producer(@, var_map, covar_map),
                      !.after = replace_consumer(@, var_map, covar_map)]
  ELSE IF stmt.k = "Ifz_stmt"
    THEN [stmt EXCEPT !.condition = replace_producer(@, var_map, covar_map),
                      !.if_zero = replace_statement(@, var_map, covar_map),
                      !.if_other = replace_statement(@, var_map, covar_map)]
  ELSE IF stmt.k = "Cut_stmt"
    THEN [stmt EXCEPT !.producer = replace_producer(@, var_map, covar_map),
                      !.consumer = replace_consumer(@, var_map, covar_map)]
  ELSE [stmt EXCEPT
          !.args = [i \in 1..Len(@) |-> replace_producer(@[i], var_map, covar_map)],
          !.coargs = [i \in 1..Len(@) |-> replace_consumer(@[i], var_map, covar_map)]]

replace_clause(clause, var_map, covar_map) ==
  [clause EXCEPT !.body = replace_statement(@, MapEraseAll(var_map, clause.arg_ids),
                                            MapEraseAll(covar_map, clause.coarg_ids))]

\* a map that gives every parameter the first argument
arg_map_first(ids, values) == [id \in Range(ids) |-> values[1]]

\* the loops that build var_map / covar_map with emplace (the first entry of
\* an id stays)
arg_map(ids, values) ==
  [id \in Range(ids) |->
     values[CHOOSE i \in 1..Len(ids) : ids[i] = id /\ \A j \in 1..(i - 1) : ids[j] # id]]

\* std::int64_t, scaled to IntBits bits
IntBits == 8

IntMax == 2 ^ (IntBits - 1) - 1

IntMin == 0 - 2 ^ (IntBits - 1)

\* the two's complement value an overflowing operation leaves in the register
Wrap(x) == ((x - IntMin) % (2 ^ IntBits)) + IntMin

\* C++ integer division truncates toward zero
Abs(x) == IF x < 0 THEN 0 - x ELSE x

TruncDiv(a, b) ==
  IF (a < 0) = (b < 0) THEN Abs(a) \div Abs(b) ELSE 0 - (Abs(a) \div Abs(b))

TruncMod(a, b) == a - b * TruncDiv(a, b)

Computed(value) == [trap |-> FALSE, value |-> value]

Trapped == [trap |-> TRUE, value |-> 0]

\* Interpreter::do_arithmetic; the set of what the call can do.  Signed
\* overflow is undefined: a sum, difference or product out of range wraps
\* around, and the quotient and the remainder of the least integer by -1
\* either trap in the division instruction or come out as that instruction
\* leaves them without a trap (the least integer, and 0)
do_arithmetic(op, left, right) ==
  IF op = "+" THEN {Computed(Wrap(left + right))}
  ELSE IF op = "-" THEN {Computed(Wrap(left - right))}
  ELSE IF op = "*" THEN {Computed(Wrap(left * right))}
  ELSE IF op = "/"
    THEN (IF right = 0 THEN {Computed(1)}
          ELSE IF left = IntMin /\ right = 0 - 1 THEN {Trapped, Computed(IntMin)}
          ELSE {Computed(TruncDiv(left, right))})
  ELSE IF right = 0 THEN {Computed(left)}
  ELSE IF left = IntMin /\ right = 0 - 1 THEN {Trapped, Computed(0)}
  ELSE {Computed(TruncMod(left, right))}

\* a fresh_var_id that hands out the counter without advancing it
fresh_var_id_stale(it) == [it |-> it, id |-> it.n_vars]

\* Interpreter::fresh_var_id
fresh_var_id(it) == [it |-> [it EXCEPT !.n_vars = @ + 1], id |-> it.n_vars]

\* Interpreter::fresh_covar_id
fresh_covar_id(it) == [it |-> [it EXCEPT !.n_covars = @ + 1], id |-> it.n_covars]

\* the Producer& a focus function hands to focus_statement: a place in the
\* statement
At(field, index) == [field |-> field, index |-> index]

get_at(stmt, at) ==
  IF at.field = "left" THEN stmt.left
  ELSE IF at.field = "right" THEN stmt.right
  ELSE IF at.field = "condition" THEN stmt.condition
  ELSE IF at.field = "args" THEN stmt.args[at.index + 1]
  ELSE IF at.field = "producer.args" THEN stmt.producer.args[at.index + 1]
  ELSE stmt.consumer.args[at.index + 1]

put_at(stmt, at, prod) ==
  IF at.field = "left" THEN [stmt EXCEPT !.left = prod]
  ELSE IF at.field = "right" THEN [stmt EXCEPT !.right = prod]
  ELSE IF at.field = "condition" THEN [stmt EXCEPT !.condition = prod]
  ELSE IF at.field = "args" THEN [stmt EXCEPT !.args[at.index + 1] = prod]
  ELSE IF at.field = "producer.args"
    THEN [stmt EXCEPT !.producer.args[at.index + 1] = prod]
  ELSE [stmt EXCEPT !.consumer.args[at.index + 1] = prod]

\* a focus_statement whose MuTilde binds another id than the variable it put
\* in the statement
focus_statement_unbinding(it, stmt, at) ==
  [it |-> fresh_var_id(it).it,
   node |-> Cut_stmt(get_at(stmt, at),
                     Mu_cons(fresh_var_id(it).id + 1,
                             put_at(stmt, at, Variable_prod(fresh_var_id(it).id))))]

\* Interpreter::focus_statement; returns [it, node]
focus_statement(it, stmt, at) ==
  (CHOOSE picked \in {(
      [it |-> v.it,
     node |-> Cut_stmt(get_at(stmt, at),
                       Mu_cons(v.id, put_at(stmt, at, Variable_prod(v.id))))]
    ) : v \in {fresh_var_id(it)}} : TRUE)

\* Interpreter::focus_constructor; returns [it, node]
focus_constructor(it, prod, arg_index) ==
  (CHOOSE picked \in {(
      (CHOOSE picked \in {(
      [it |-> outer_cut.it, node |-> Mu_prod(c.id, outer_cut.node)]
    ) : outer_cut \in {focus_statement(c.it, Cut_stmt(prod, Covariable_cons(c.id)),
                       At("producer.args", arg_index))}} : TRUE)
    ) : c \in {fresh_covar_id(it)}} : TRUE)

\* Interpreter::focus_destructor: cons is moved into inner_cut before the
\* third argument of focus_statement reads cons->destructor_name
focus_destructor(it, cons, arg_index) == {Crash(fresh_var_id(it).it)}

\* the argument lists of focus_arithmetic, focus_ifz and focus_call: the
\* order of evaluation is unspecified.  When the Statement is built from
\* std::move(stmt) first, stmt is empty when stmt->... is evaluated
focus_moved_first(it, stmt, at, info) ==
  (CHOOSE picked \in {(
      {Out(f.it, "Statement", f.node, info), Crash(it)}
    ) : f \in {focus_statement(it, stmt, at)}} : TRUE)

\* Interpreter::focus_arithmetic
focus_arithmetic(it, stmt, focus_left) ==
  focus_moved_first(it, stmt, At(IF focus_left THEN "left" ELSE "right", 0),
                    IF focus_left THEN "Focus: Arithmetic (left)"
                    ELSE "Focus: Arithmetic (right)")

\* Interpreter::focus_ifz
focus_ifz(it, stmt) == focus_moved_first(it, stmt, At("condition", 0), "Focus: If-zero")

\* Interpreter::focus_call
focus_call(it, stmt, arg_index) ==
  focus_moved_first(it, stmt, At("args", arg_index), "Focus: Call")

\* an eval_clauses that takes the first clause whatever its abstraction id
eval_clauses_first(abstraction_id, args, coargs, clauses) ==
  IF clauses = <<>> THEN [found |-> FALSE, body |-> Null("Statement")]
  ELSE [found |-> TRUE,
        body |-> replace_statement(
                   clauses[1].body,
                   [id \in {clauses[1].arg_ids[i] :
                              i \in DOMAIN clauses[1].arg_ids \cap DOMAIN args} |->
                      args[CHOOSE i \in DOMAIN args : clauses[1].arg_ids[i] = id]],
                   [id \in {clauses[1].coarg_ids[i] :
                              i \in DOMAIN clauses[1].coarg_ids \cap DOMAIN coargs} |->
                      coargs[CHOOSE i \in DOMAIN coargs : clauses[1].coarg_ids[i] = id]])]

\* Interpreter::eval_clauses; returns [found, body]
eval_clauses(abstraction_id, args, coargs, clauses) ==
  (CHOOSE picked \in {(
      IF hits = {} THEN [found |-> FALSE, body |-> Null("Statement")]
    ELSE (CHOOSE picked \in {(
        [found |-> TRUE,
            body |-> replace_statement(matching.body, arg_map(matching.arg_ids, args),
                                       arg_map(matching.coarg_ids, coargs))]
      ) : matching \in {clauses[CHOOSE i \in hits : \A j \in hits : i <= j]}} : TRUE)
    ) : hits \in {{i \in 1..Len(clauses) : clauses[i].abstraction_id = abstraction_id}}} : TRUE)

\* Interpreter::step(Box<Arithmetic_stmt>&&)
step_arithmetic(it, stmt) ==
  (CHOOSE picked \in {(
      IF ~l.v THEN focus_arithmetic(it, [stmt EXCEPT !.left = l.node], TRUE)
    ELSE (CHOOSE picked \in {(
        (CHOOSE picked \in {(
             IF ~r.v THEN focus_arithmetic(it, s2, FALSE)
           ELSE IF s2.left.k = "Value_prod" /\ s2.right.k = "Value_prod"
             THEN {IF o.trap THEN Crash(it)
                   ELSE Out(it, "Statement", Cut_stmt(Value_prod(o.value), s2.after),
                            "Reduce: Arithmetic")
                   : o \in do_arithmetic(s2.op, s2.left.value, s2.right.value)}
           ELSE {Stuck(it, s2)}
           ) : s2 \in {[stmt EXCEPT !.left = l.node, !.right = r.node]}} : TRUE)
      ) : r \in {is_value(stmt.right)}} : TRUE)
    ) : l \in {is_value(stmt.left)}} : TRUE)

\* a step on Ifz that takes a condition that is no literal for a number
\* other than zero
step_ifz_lenient(it, stmt) ==
  IF ~is_value(stmt.condition).v
    THEN focus_ifz(it, [stmt EXCEPT !.condition = is_value(stmt.condition).node])
  ELSE IF stmt.condition.k = "Value_prod" /\ stmt.condition.value = 0
    THEN {Out(it, "Statement", stmt.if_zero, "Reduce: If-zero (zero)")}
  ELSE {Out(it, "Statement", stmt.if_other, "Reduce: If-zero (other)")}

\* Interpreter::step(Box<Ifz_stmt>&&)
step_ifz(it, stmt) ==
  (CHOOSE picked \in {(
      (CHOOSE picked \in {(
      IF ~c.v THEN focus_ifz(it, s1)
    ELSE IF s1.condition.k = "Value_prod"
      THEN (IF s1.condition.value = 0
            THEN {Out(it, "Statement", s1.if_zero, "Reduce: If-zero (zero)")}
            ELSE {Out(it, "Statement", s1.if_other, "Reduce: If-zero (other)")})
    ELSE {Stuck(it, s1)}
    ) : s1 \in {[stmt EXCEPT !.condition = c.node]}} : TRUE)
    ) : c \in {is_value(stmt.condition)}} : TRUE)

\* Interpreter::step(Box<Cut_stmt>&&).  The name in the constructor focus
\* message is read through a reference to the variant alternative that the
\* assignment before it destroyed: it is the constructor's name or what the
\* new alternative holds in its place
step_cut(it, stmt) ==
  IF stmt.producer.k = "Mu_prod"
    THEN {Out(it, "Statement",
              replace_statement(stmt.producer.body, <<>>,
                                arg_map(<<stmt.producer.coarg_id>>, <<stmt.consumer>>)),
              "Reduce: Mu")}
  ELSE
  (CHOOSE picked \in {(
      (CHOOSE picked \in {(
      (CHOOSE picked \in {(
      (CHOOSE picked \in {(
      IF ~v.v
      THEN (IF p.k # "Constructor_prod" THEN {Stuck(it, s1)}
            ELSE (CHOOSE picked \in {(
                (CHOOSE picked \in {(
                     {Out(focused.it, "Statement", [s1 EXCEPT !.producer = focused.node],
                        info)
                      : info \in {"Focus: Constructor (constructor_name)",
                                  "Focus: Constructor (coarg_name)"}}
                   ) : focused \in {focus_constructor(it, [p EXCEPT !.args = non_value_arg.node],
                                        non_value_arg.index)}} : TRUE)
              ) : non_value_arg \in {find_non_value(p.args)}} : TRUE))
    ELSE IF c.k = "Mu_cons"
      THEN {Out(it, "Statement",
                replace_statement(c.body, arg_map(<<c.arg_id>>, <<p>>), <<>>),
                "Reduce: Mu'")}
    ELSE IF p.k = "Constructor_prod" /\ c.k = "Case_cons"
      THEN (CHOOSE picked \in {(
          IF matched.found THEN {Out(it, "Statement", matched.body, "Reduce: Case")}
             ELSE {Stuck(it, s1)}
        ) : matched \in {eval_clauses(p.abstraction_id, p.args, p.coargs, c.clauses)}} : TRUE)
    ELSE IF p.k = "Cocase_prod" /\ c.k = "Destructor_cons"
      THEN (CHOOSE picked \in {(
          IF non_value_arg.index # None
               THEN focus_destructor(it, [c EXCEPT !.args = non_value_arg.node],
                                     non_value_arg.index)
             ELSE (CHOOSE picked \in {(
                 IF matched.found
                      THEN {Out(it, "Statement", matched.body, "Reduce: Cocase")}
                    ELSE {Stuck(it, s1)}
               ) : matched \in {eval_clauses(c.abstraction_id, non_value_arg.node, c.coargs,
                                    p.clauses)}} : TRUE)
        ) : non_value_arg \in {find_non_value(c.args)}} : TRUE)
    ELSE IF c.k = "End_cons" THEN {Out(it, "Producer", p, "Finished!")}
    ELSE {Stuck(it, s1)}
    ) : c \in {s1.consumer}} : TRUE)
    ) : p \in {s1.producer}} : TRUE)
    ) : s1 \in {[stmt EXCEPT !.producer = v.node]}} : TRUE)
    ) : v \in {is_value(stmt.producer)}} : TRUE)

\* a Call step that substitutes in the body of the definition itself, not in
\* a copy of it
step_call_in_place(it, stmt) ==
  IF find_non_value(stmt.args).index # None
    THEN focus_call(it, [stmt EXCEPT !.args = find_non_value(stmt.args).node],
                    find_non_value(stmt.args).index)
  ELSE {Out([it EXCEPT !.definitions[stmt.definition_id + 1].body =
                         replace_statement(@, arg_map(it.definitions[stmt.definition_id + 1].arg_ids,
                                                      stmt.args),
                                           arg_map(it.definitions[stmt.definition_id + 1].coarg_ids,
                                                   stmt.coargs))],
            "Statement",
            replace_statement(it.definitions[stmt.definition_id + 1].body,
                              arg_map(it.definitions[stmt.definition_id + 1].arg_ids, stmt.args),
                              arg_map(it.definitions[stmt.definition_id + 1].coarg_ids,
                                      stmt.coargs)),
            "Reduce: Call")}

\* Interpreter::step(Box<Call_stmt>&&)
step_call(it, stmt) ==
  (CHOOSE picked \in {(
      (CHOOSE picked \in {(
      IF non_value.index # None THEN focus_call(it, s1, non_value.index)
    ELSE (CHOOSE picked \in {(
        {Out(it, "Statement",
                replace_statement(definition.body, arg_map(definition.arg_ids, s1.args),
                                  arg_map(definition.coarg_ids, s1.coargs)),
                "Reduce: Call")}
      ) : definition \in {it.definitions[stmt.definition_id + 1]}} : TRUE)
    ) : s1 \in {[stmt EXCEPT !.args = non_value.node]}} : TRUE)
    ) : non_value \in {find_non_value(stmt.args)}} : TRUE)

\* Interpreter::step(Statement&&): every overload reads through its Box first
step(it, stmt) ==
  IF is_null(stmt) THEN {Crash(it)}
  ELSE IF stmt.k = "Arithmetic_stmt" THEN step_arithmetic(it, stmt)
  ELSE IF stmt.k = "Ifz_stmt" THEN step_ifz(it, stmt)
  ELSE IF stmt.k = "Cut_stmt" THEN step_cut(it, stmt)
  ELSE step_call(it, stmt)

(***************************************************************************)
(* Input programs, written as the token sequences their text reads as.     *)
(***************************************************************************)
LP == Tok("(", "(", 0)

RP == Tok(")", ")", 0)

LS == Tok("[", "[", 0)

RS == Tok("]", "]", 0)

W(s) == Tok("a", s, 0)

N(v) == Tok("n", ToString(v), v)

Op(s) == Tok("o", s, 0)

src_end == <<Tok("e", "<END>", 0)>>

RECURSIVE Flat(_)
Flat(seqs) == IF seqs = <<>> THEN <<>> ELSE Head(seqs) \o Flat(Tail(seqs))

Words(names) == [i \in 1..Len(names) |-> W(names[i])]

src_list(items) == <<LP>> \o Flat(items) \o <<RP>>

src_var(name) == <<W(name)>>

src_int(v) == <<N(v)>>

src_cut(p, c) == <<LS>> \o p \o c \o <<RS>>

src_mu(a, s) == <<LP, W("mu"), W(a)>> \o s \o <<RP>>

src_mu_c(x, s) == <<LP, W("mu'"), W(x)>> \o s \o <<RP>>

\* a structor application: a (co)argument list is written when it is not empty
src_app(name, args, coargs) ==
  <<LP, W(name)>> \o (IF args # <<>> THEN src_list(args) ELSE <<>>)
    \o (IF coargs # <<>> THEN src_list(coargs) ELSE <<>>) \o <<RP>>

src_clause(name, params, coparams, body) ==
  <<LP, W(name)>>
    \o (IF params # <<>> THEN <<LP>> \o Words(params) \o <<RP>> ELSE <<>>)
    \o (IF coparams # <<>> THEN <<LP>> \o Words(coparams) \o <<RP>> ELSE <<>>)
    \o body \o <<RP>>

src_case(clauses) == <<LP, W("case")>> \o src_list(clauses) \o <<RP>>

src_cocase(clauses) == <<LP, W("cocase")>> \o src_list(clauses) \o <<RP>>

src_arith(op, l, r, k) == <<LP, Op(op)>> \o l \o r \o k \o <<RP>>

src_ifz(c, s1, s2) == <<LP, W("ifz")>> \o c \o s1 \o s2 \o <<RP>>

src_call(name, args, coargs) ==
  <<LP, W(name)>> \o src_list(args) \o src_list(coargs) \o <<RP>>

src_def(name, params, coparams, body) ==
  <<LP, W("def"), W(name), LP>> \o Words(params) \o <<RP, LP>> \o Words(coparams)
    \o <<RP>> \o body \o <<RP>>

src_nil == src_app("Nil", <<>>, <<>>)

src_cons(h, t) == src_app("Cons", <<h, t>>, <<>>)

src_pair(a, b) == src_app("Pair", <<a, b>>, <<>>)

\* tests/Programs.h
stmt_ifz_simple ==
  src_arith("-", src_int(2), src_int(2),
            src_mu_c("x", src_ifz(src_var("x"), src_cut(src_int(123), src_end),
                                  src_cut(src_var("x"), src_end))))

def_silly == src_def("foo", <<"foo">>, <<"foo">>, src_cut(src_var("foo"), src_var("foo")))

def_list_map ==
  src_def("ListMap", <<"f", "xs">>, <<"then">>,
    src_cut(src_var("xs"),
      src_case(<<
        src_clause("Nil", <<>>, <<>>, src_cut(src_nil, src_var("then"))),
        src_clause("Cons", <<"x", "xs">>, <<>>,
          src_cut(
            src_cons(
              src_mu("xThen",
                     src_cut(src_var("f"),
                             src_app("Ap", <<src_var("x")>>, <<src_var("xThen")>>))),
              src_mu("xsThen",
                     src_call("ListMap", <<src_var("f"), src_var("xs")>>,
                              <<src_var("xsThen")>>))),
            src_var("then"))) >>)))

def_pair_sum ==
  src_def("PairSum", <<"p">>, <<"then">>,
    src_cut(src_var("p"),
      src_case(<< src_clause("Pair", <<"a", "b">>, <<>>,
                    src_arith("+", src_var("a"), src_var("b"), src_var("then"))) >>)))

stmt_map_sum_pair ==
  src_call("ListMap",
    << src_cocase(<< src_clause("Ap", <<"p">>, <<"then">>,
                       src_call("PairSum", <<src_var("p")>>, <<src_var("then")>>)) >>),
       src_cons(src_pair(src_int(1), src_int(2)),
                src_cons(src_pair(src_int(3), src_int(4)), src_nil)) >>,
    <<src_end>>)

stmt_poly_list_bad ==
  src_cut(src_cons(src_int(1), src_cons(src_nil, src_nil)), src_end)

def_poly_recursion_bad ==
  src_def("PolyRec", <<"x">>, <<>>,
    src_call("PolyRec", <<src_pair(src_var("x"), src_var("x"))>>, <<>>))

\* further definitions and statements
def_count ==
  src_def("Count", <<"n">>, <<"k">>,
    src_ifz(src_var("n"), src_cut(src_int(0), src_var("k")),
            src_arith("-", src_var("n"), src_int(1),
                      src_mu_c("m", src_call("Count", <<src_var("m")>>,
                                             <<src_var("k")>>)))))

def_loop == src_def("Loop", <<>>, <<>>, src_call("Loop", <<>>, <<>>))

def_id == src_def("Id", <<"x">>, <<"k">>, src_cut(src_var("x"), src_var("k")))

def_twice ==
  src_def("Twice", <<"x">>, <<"k">>,
    src_call("Id", <<src_var("x")>>,
             <<src_mu_c("y", src_call("Id", <<src_var("y")>>, <<src_var("k")>>))>>))

src_value_mu == src_mu("a", src_cut(src_int(1), src_var("a")))

src_ap_id == src_cocase(<<src_clause("Ap", <<"x">>, <<"k">>,
                                     src_cut(src_var("x"), src_var("k")))>>)

src_case_list ==
  src_case(<< src_clause("Nil", <<>>, <<>>, src_cut(src_int(0), src_end)),
              src_clause("Cons", <<"x", "xs">>, <<>>, src_cut(src_var("x"), src_end)) >>)

\* the producers and consumers that are cut against each other
Producers ==
  << src_int(1),
     src_nil,
     src_cons(src_int(1), src_nil),
     src_cons(src_value_mu, src_nil),
     src_cons(src_int(2), src_cons(src_value_mu, src_nil)),
     src_pair(src_int(1), src_int(2)),
     src_value_mu,
     src_mu("a", src_cut(src_nil, src_var("a"))),
     src_ap_id,
     src_cocase(<< src_clause("Head", <<>>, <<"k">>, src_cut(src_int(1), src_var("k"))),
                   src_clause("Tail", <<>>, <<"k">>, src_cut(src_int(2), src_end)) >>),
     src_cocase(<< src_clause("Fst", <<>>, <<"k">>, src_cut(src_int(1), src_var("k"))),
                   src_clause("Snd", <<>>, <<"k">>, src_cut(src_nil, src_var("k"))) >>) >>

Consumers ==
  << src_end,
     src_mu_c("x", src_cut(src_var("x"), src_end)),
     src_mu_c("x", src_arith("+", src_var("x"), src_int(1), src_end)),
     src_mu_c("x", src_ifz(src_var("x"), src_cut(src_int(0), src_end),
                           src_cut(src_var("x"), src_end))),
     src_case_list,
     src_case(<< src_clause("Pair", <<"a", "b">>, <<>>,
                            src_arith("+", src_var("a"), src_var("b"), src_end)) >>),
     src_app("Ap", <<src_int(1)>>, <<src_end>>),
     src_app("Ap", <<src_value_mu>>, <<src_end>>),
     src_app("Head", <<>>, <<src_end>>),
     src_app("Snd", <<>>, <<src_end>>) >>

\* the statements that are put one after another
Statements ==
  << src_cut(src_int(1), src_end),
     src_cut(src_cons(src_int(2), src_nil), src_end),
     src_arith("+", src_int(1), src_int(2), src_end),
     src_cut(src_int(1), src_case_list),
     src_arith("+", src_nil, src_int(1), src_end),
     src_ifz(src_value_mu, src_cut(src_int(3), src_end), src_cut(src_int(4), src_end)) >>

\* the operators and operands of the arithmetic statements
Operators == <<"+", "-", "*", "/", "%">>

Operands == <<IntMin, 0 - 7, 0 - 1, 0, 2, IntMax>>

\* whole programs by name
Programs ==
  << [name |-> "empty", source |-> <<>>],
     [name |-> "ifz_simple", source |-> stmt_ifz_simple],
     [name |-> "silly", source |-> def_silly \o src_call("foo", <<src_int(1)>>, <<src_end>>)],
     [name |-> "map_sum_pair",
      source |-> def_list_map \o def_pair_sum \o stmt_map_sum_pair],
     [name |-> "test_program",
      source |-> def_silly \o def_list_map \o def_pair_sum \o stmt_map_sum_pair
                   \o stmt_ifz_simple],
     [name |-> "poly_list_bad", source |-> stmt_poly_list_bad],
     [name |-> "poly_recursion_bad", source |-> def_poly_recursion_bad],
     [name |-> "poly_recursion_then",
      source |-> def_poly_recursion_bad \o def_id \o stmt_poly_list_bad
                   \o src_call("Id", <<src_int(1)>>, <<src_end>>)
                   \o src_cut(src_int(1), src_case_list)],
     [name |-> "count",
      source |-> def_count \o src_call("Count", <<src_int(2)>>, <<src_end>>)],
     [name |-> "loop", source |-> def_loop \o src_call("Loop", <<>>, <<>>)],
     [name |-> "id_twice",
      source |-> def_id \o def_twice
                   \o src_call("Twice", <<src_int(1)>>, <<src_end>>)
                   \o src_call("Twice", <<src_nil>>, <<src_end>>)],
     [name |-> "call_focus",
      source |-> def_id \o src_call("Id", <<src_cons(src_value_mu, src_nil)>>,
                                    <<src_end>>)],
     [name |-> "arith_focus",
      source |-> src_arith("*", src_int(2), src_value_mu, src_end)],
     [name |-> "self_call_int",
      source |-> src_def("Down", <<"x">>, <<"k">>,
                   src_ifz(src_var("x"), src_cut(src_var("x"), src_var("k")),
                           src_call("Down", <<src_int(0)>>, <<src_var("k")>>)))
                 \o src_call("Down", <<src_int(5)>>, <<src_end>>)],
     [name |-> "self_call_list",
      source |-> src_def("Grow", <<"x">>, <<>>,
                   src_call("Grow", <<src_cons(src_var("x"), src_nil)>>, <<>>))],
     [name |-> "forward_call",
      source |-> src_def("First", <<>>, <<>>, src_call("Second", <<>>, <<>>))
                 \o src_def("Second", <<>>, <<>>, src_cut(src_int(1), src_end))],
     [name |-> "repeated_definition", source |-> def_id \o def_id],
     [name |-> "reserved_name",
      source |-> src_def("ifz", <<>>, <<>>, src_cut(src_int(1), src_end))],
     [name |-> "unknown_variable", source |-> src_cut(src_var("x"), src_end)],
     [name |-> "call_arity",
      source |-> def_id \o src_call("Id", <<src_int(1), src_int(2)>>, <<src_end>>)],
     [name |-> "unclosed", source |-> <<LS, N(1)>>],
     [name |-> "lone_minus", source |-> <<LS, Op("-")>> \o src_end \o <<RS>>],
     [name |-> "scope_exit",
      source |-> src_def("Sc", <<"x">>, <<"k">>,
                   src_ifz(src_var("x"),
                     src_cut(src_pair(src_var("x"), src_var("x")),
                       src_case(<<src_clause("Pair", <<"x", "b">>, <<>>,
                                    src_cut(src_var("x"), src_var("k")))>>)),
                     src_cut(src_var("x"), src_var("k"))))
                 \o src_cut(src_int(1),
                      src_mu_c("x", src_ifz(src_var("x"),
                        src_cut(src_int(2), src_mu_c("x", src_cut(src_var("x"), src_end))),
                        src_cut(src_var("x"), src_end))))
                 \o src_cut(src_mu("k", src_cut(src_mu("k", src_cut(src_int(1), src_var("k"))),
                                                src_var("k"))),
                            src_end)],
     [name |-> "out_of_scope",
      source |-> src_cut(src_mu("k", src_cut(src_int(1), src_var("k"))), src_var("k"))],
     [name |-> "focus_leftmost",
      source |-> src_def("Sub", <<"x", "y", "z">>, <<"k">>,
                         src_arith("-", src_var("y"), src_var("z"), src_var("k")))
                   \o src_arith("-", src_mu("a", src_cut(src_int(3), src_var("a"))),
                                 src_mu("b", src_cut(src_int(1), src_var("b"))), src_end)
                   \o src_call("Sub", <<src_int(5),
                                         src_mu("a", src_cut(src_int(3), src_var("a"))),
                                         src_mu("b", src_cut(src_int(1), src_var("b")))>>,
                               <<src_end>>)
                   \o src_cut(src_cons(src_mu("a", src_cut(src_int(3), src_var("a"))),
                                       src_mu("b", src_cut(src_nil, src_var("b")))),
                              src_end)],
     [name |-> "failed_then_called",
      source |-> src_def("Bad", <<"x">>, <<"k">>,
                         src_arith("+", src_nil, src_int(1), src_var("k")))
                   \o src_call("Bad", <<src_int(1)>>, <<src_end>>)
                   \o src_call("Bad", <<src_nil>>, <<src_end>>)],
     [name |-> "shadowing",
      source |-> src_cut(src_int(1),
                   src_mu_c("x", src_cut(src_int(2),
                     src_mu_c("x", src_cut(src_var("x"), src_end)))))] >>

\* bound: the length of the clause lists that are tried
MaxClauses == 3

\* the structor names the clause lists are drawn from
ClauseNames == {"Nil", "Cons", "Pair", "Head", "Tail", "Ap"}

src_clause_of(name) ==
  IF name = "Nil" THEN src_clause("Nil", <<>>, <<>>, src_cut(src_int(1), src_end))
  ELSE IF name = "Cons"
    THEN src_clause("Cons", <<"x", "xs">>, <<>>, src_cut(src_var("xs"), src_end))
  ELSE IF name = "Pair"
    THEN src_clause("Pair", <<"a", "b">>, <<>>, src_cut(src_var("a"), src_end))
  ELSE IF name = "Ap"
    THEN src_clause("Ap", <<"x">>, <<"k">>, src_cut(src_var("x"), src_var("k")))
  ELSE src_clause(name, <<>>, <<"k">>, src_cut(src_int(1), src_end))

\* a case is cut against a list, a cocase against <END>
src_clause_program(polarity, names) ==
  IF polarity = "consumer"
    THEN src_cut(src_nil, src_case([i \in 1..Len(names) |-> src_clause_of(names[i])]))
  ELSE src_cut(src_cocase([i \in 1..Len(names) |-> src_clause_of(names[i])]), src_end)

\* the structors whose applications and clauses are written with and
\* without their lists: (arity, coarity) is (0, 0), (2, 0), (0, 1), (1, 1)
WrittenNames == {"Nil", "Cons", "Head", "Ap"}

\* the arguments an application of the structor is given
src_args_of(name) ==
  IF name = "Cons" THEN <<src_int(1), src_nil>>
  ELSE IF name = "Ap" THEN <<src_int(1)>>
  ELSE <<>>

src_coargs_of(name) == IF name \in {"Head", "Ap"} THEN <<src_end>> ELSE <<>>

src_params_of(name) ==
  IF name = "Cons" THEN <<"x", "xs">> ELSE IF name = "Ap" THEN <<"x">> ELSE <<>>

src_coparams_of(name) == IF name \in {"Head", "Ap"} THEN <<"k">> ELSE <<>>

\* an application with its argument list written iff i = 1 and its
\* coargument list written iff j = 1, cut against <END> or the literal 1
src_written_app(name, i, j) ==
  IF name \in {"Nil", "Cons"}
    THEN src_cut(<<LP, W(name)>> \o (IF i = 1 THEN src_list(src_args_of(name)) ELSE <<>>)
                   \o (IF j = 1 THEN src_list(src_coargs_of(name)) ELSE <<>>) \o <<RP>>,
                 src_end)
  ELSE src_cut(src_int(1),
               <<LP, W(name)>> \o (IF i = 1 THEN src_list(src_args_of(name)) ELSE <<>>)
                 \o (IF j = 1 THEN src_list(src_coargs_of(name)) ELSE <<>>) \o <<RP>>)

\* a clause with its lists written in the same way, in a total clause list
src_written_clause(name, i, j) ==
  <<LP, W(name)>>
    \o (IF i = 1 THEN <<LP>> \o Words(src_params_of(name)) \o <<RP>> ELSE <<>>)
    \o (IF j = 1 THEN <<LP>> \o Words(src_coparams_of(name)) \o <<RP>> ELSE <<>>)
    \o src_cut(src_int(1), src_end) \o <<RP>>

src_written_clauses(name, i, j) ==
  IF name = "Nil"
    THEN src_cut(src_nil, src_case(<<src_written_clause(name, i, j), src_clause_of("Cons")>>))
  ELSE IF name = "Cons"
    THEN src_cut(src_nil, src_case(<<src_clause_of("Nil"), src_written_clause(name, i, j)>>))
  ELSE IF name = "Head"
    THEN src_cut(src_cocase(<<src_written_clause(name, i, j), src_clause_of("Tail")>>),
                 src_end)
  ELSE src_cut(src_cocase(<<src_written_clause(name, i, j)>>), src_end)

Choice(kind, name, polarity, names, i, j) ==
  [kind |-> kind, name |-> name, polarity |-> polarity, names |-> names,
   i |-> i, j |-> j]

\* the inputs
Given ==
  {Choice("program", Programs[i].name, "", <<>>, 0, 0) : i \in 1..Len(Programs)}
    \cup {Choice("cut", "", "", <<>>, i, j) :
            i \in 1..Len(Producers), j \in 1..Len(Consumers)}
    \cup {Choice("two", "", "", <<>>, i, j) :
            i \in 1..Len(Statements), j \in 1..Len(Statements)}
    \cup {Choice("arithmetic", Operators[o], "", <<>>, i, j) :
            o \in 1..Len(Operators), i \in 1..Len(Operands), j \in 1..Len(Operands)}
    \cup {Choice("clauses", "", p, names, 0, 0) :
            p \in {"producer", "consumer"},
            names \in UNION {[1..n -> ClauseNames] : n \in 0..MaxClauses}}
    \cup {Choice("structor", name, form, <<>>, i, j) :
            name \in WrittenNames, form \in {"application", "clause"},
            i \in {0, 1}, j \in {0, 1}}

\* the text of an input
Source(g) ==
  IF g.kind = "program"
    THEN (CHOOSE p \in Range(Programs) : p.name = g.name).source
  ELSE IF g.kind = "cut" THEN src_cut(Producers[g.i], Consumers[g.j])
  ELSE IF g.kind = "two" THEN Statements[g.i] \o Statements[g.j]
  ELSE IF g.kind = "arithmetic"
    THEN src_arith(g.name, src_int(Operands[g.i]), src_int(Operands[g.j]), src_end)
  ELSE IF g.kind = "structor"
    THEN (IF g.polarity = "application" THEN src_written_app(g.name, g.i, g.j)
          ELSE src_written_clauses(g.name, g.i, g.j))
  ELSE src_clause_program(g.polarity, g.names)

(***************************************************************************)
(* Lammm.cpp and the clients of the library: an input is parsed, type      *)
(* checked and run.  A client of the library may build an Interpreter from *)
(* a program it did not type check, and may call run again.                *)
(***************************************************************************)

\* bound: reduction steps made on one statement
MaxSteps == 40

\* bound: invocations of run on one interpreter
MaxRuns == 2

NoProgram == [definitions |-> <<>>, statements |-> <<>>]

NoTyper == [checked |-> 0, thrown |-> 0]

NoInstance == [type |-> None, args |-> <<>>, coargs |-> <<>>]

NoCall == [op |-> "none", id |-> None, err |-> "", rec |-> FALSE, inst |-> NoInstance]

\* the driver before it reads anything
PipeStart(g) ==
  /\ given = g
  /\ input = Source(g)
  /\ phase = "start"
  /\ parser = Parser(default_typing_context)
  /\ prog = NoProgram
  /\ typer = NoTyper
  /\ type_errors = <<>>
  /\ typed = "no"
  /\ interp = Interpreter(0, 0, NoProgram)
  /\ current = Null("Statement")
  /\ si = 0
  /\ results = <<>>
  /\ runs = <<>>
  /\ nsteps = 0
  /\ printed = ""

\* no driver: the context is used by its clients directly
PipeIdle == PipeStart(Choice("program", "empty", "", <<>>, 0, 0))

Init ==
  /\ ctx = default_typing_context
  /\ strong = {}
  /\ last = NoCall
  /\ nunify = 0
  /\ \E g \in Given : PipeStart(g)

\* Lammm.cpp: parser.parse_program(std::cin)
ParseProgram ==
  /\ phase = "start"
  /\ \E r \in {parse_program(parser, input)} :
        /\ parser' = r.ps
        /\ ctx' = r.ps.ctx
        /\ phase' = IF r.ps.err # "" THEN "parse_error" ELSE "parsed"
        /\ prog' = IF r.ps.err # "" THEN prog ELSE r.node
  /\ UNCHANGED <<clientVars, given, input, typer, type_errors, typed, interp, current, si,
                 results, runs, nsteps, printed>>

\* Lammm.cpp: type_program(program, ctx)
TypeProgram ==
  /\ phase = "parsed"
  /\ typed = "no"
  /\ \E t \in {type_program(prog, ctx)} :
        /\ ctx' = t.ts.ctx
        /\ parser' = [parser EXCEPT !.ctx = t.ts.ctx]
        /\ prog' = t.program
        /\ typer' = [checked |-> t.ts.checked, thrown |-> t.ts.thrown]
        /\ type_errors' = t.errors
        /\ typed' = IF t.errors = <<>> THEN "ok" ELSE "fail"
  /\ UNCHANGED <<clientVars, given, input, phase, interp, current, si, results, runs,
                 nsteps, printed>>

\* Lammm.cpp: Interpreter interpreter{parser.n_vars(), parser.n_covars(),
\* std::move(program), ...}; the driver gets here after type_program returned
\* normally, a client of the library also without calling it
Construct ==
  /\ phase = "parsed"
  /\ typed # "fail"
  /\ interp' = Interpreter(parser.n_vars_, parser.n_covars_, prog)
  /\ prog' = NoProgram
  /\ phase' = "ready"
  /\ UNCHANGED <<ctx, clientVars, given, input, parser, typer, type_errors, typed, current,
                 si, results, runs, nsteps, printed>>

\* the head of run's for loop: Step_result current = std::move(stmt)
load(it, i) ==
  [it |-> [it EXCEPT !.statements[i] = Null(@.k)], current |-> it.statements[i]]

\* a push at the front of the vector instead
emplace_front(vec, result) == <<result>> \o vec

\* results.emplace_back(std::move(result))
emplace_back(vec, result) == Append(vec, result)

\* Interpreter::run up to the first step
Run ==
  /\ phase = "ready"
  /\ Len(runs) < MaxRuns
  /\ IF interp.finished
       THEN /\ runs' = Append(runs, "already_run")
            /\ UNCHANGED <<interp, phase, current, si, results, nsteps>>
     ELSE IF interp.statements = <<>>
       THEN /\ interp' = [interp EXCEPT !.finished = TRUE]
            /\ runs' = Append(runs, "returned")
            /\ results' = <<>>
            /\ UNCHANGED <<phase, current, si, nsteps>>
     ELSE /\ \E l \in {load(interp, 1)} : interp' = l.it /\ current' = l.current
          /\ si' = 1
          /\ nsteps' = 0
          /\ results' = <<>>
          /\ phase' = "running"
          /\ UNCHANGED runs
  /\ UNCHANGED <<ctx, clientVars, given, input, parser, prog, typer, type_errors, typed,
                 printed>>

\* one turn of run's while loop: current = step(...), and what follows when
\* the loop is left
Step ==
  /\ phase = "running"
  /\ nsteps < MaxSteps
  /\ \E o \in step(interp, current) :
       /\ printed' = o.info
       /\ IF o.k = "Statement"
            THEN /\ current' = o.node
                 /\ interp' = o.it
                 /\ nsteps' = nsteps + 1
                 /\ UNCHANGED <<phase, si, results, runs>>
          ELSE IF o.k = "Producer"
            THEN /\ results' = emplace_back(results, o.node)
                 /\ IF si < Len(interp.statements)
                      THEN /\ \E l \in {load(o.it, si + 1)} :
                                interp' = l.it /\ current' = l.current
                           /\ si' = si + 1
                           /\ nsteps' = 0
                           /\ UNCHANGED <<phase, runs>>
                    ELSE /\ interp' = [o.it EXCEPT !.finished = TRUE]
                         /\ current' = Null("Statement")
                         /\ si' = 0
                         /\ nsteps' = nsteps + 1
                         /\ runs' = Append(runs, "returned")
                         /\ phase' = "ready"
          ELSE /\ interp' = o.it
               /\ current' = Null("Statement")
               /\ si' = 0
               /\ nsteps' = nsteps + 1
               /\ results' = <<>>
               /\ runs' = Append(runs, o.k)
               /\ phase' = IF o.k = "stuck" THEN "ready" ELSE "dead"
  /\ UNCHANGED <<ctx, clientVars, given, input, parser, prog, typer, type_errors, typed>>

\* the exceptions of the standard library that the parser lets through:
\* they are not derived from lammm::Exception
StdExceptions == {"invalid_argument"}

\* Lammm.cpp main: how the process ends, "running" until then.  Each phase
\* is wrapped in catch (const Exception&); what is not an Exception reaches
\* std::terminate, and a trap or a wild read ends the process with a signal
main_exit ==
  IF phase = "parse_error"
    THEN (IF parser.err \in StdExceptions THEN "terminate" ELSE "1")
  ELSE IF typed = "fail" THEN "2"
  ELSE IF typed = "ok" /\ runs # <<>>
    THEN (IF runs[1] = "returned" THEN "0"
          ELSE IF runs[1] = "stuck" THEN "3"
          ELSE "signal")
  ELSE "running"

Next ==
  \/ ParseProgram
  \/ TypeProgram
  \/ Construct
  \/ Run
  \/ Step

Spec == Init /\ [][Next]_vars

(***************************************************************************)
(* The typing context under arbitrary client calls                         *)
(***************************************************************************)

\* bound: type instances allocated on top of the default context
MaxNewTypes == 4

\* bound: definitions registered on top of the builtin structors
MaxDefinitions == 1

\* bound: the builtin structors instantiated are those with ids 0..MaxStructorId
MaxStructorId == 3

\* bound: (co)arity of a registered definition
MaxArity == 1

\* bound: unify calls made by the clients in one history
MaxUnify == 3

DefaultSize == Len(default_typing_context.types)

NBuiltin == Len(builtin_structors)

Fits(types) == Len(types) <= DefaultSize + MaxNewTypes

\* a client asks for a fresh type variable
FreshTypeVariable ==
  /\ Fits(fresh_type_variable(ctx.types))
  /\ ctx' = [ctx EXCEPT !.types = fresh_type_variable(@)]
  /\ strong' = strong \cup {Len(ctx.types)}
  /\ last' = [NoCall EXCEPT !.op = "fresh_type_variable"]
  /\ UNCHANGED <<nunify, pipeVars>>

\* the parser registers a definition (Parser::parse_definition); its signature
\* handles are the ones Typer::check(Definition&) later unifies at as strong handles
AddDefinition ==
  \E arity \in 0..MaxArity, coarity \in 0..MaxArity :
    \E r \in {add_definition(ctx, "def", arity, coarity)} :
       /\ Len(ctx.abstractions) < NBuiltin + MaxDefinitions
       /\ Fits(r.types)
       /\ ctx' = r
       /\ strong' = strong \cup Range(Last(r.abstractions).args)
                      \cup Range(Last(r.abstractions).coargs)
       /\ last' = [NoCall EXCEPT !.op = "add_definition"]
       /\ UNCHANGED <<nunify, pipeVars>>

\* the abstractions a client instantiates: the first builtin structors and
\* the registered definitions
Instantiable ==
  {id \in 0..(Len(ctx.abstractions) - 1) : id <= MaxStructorId \/ id >= NBuiltin}

\* a client instantiates an abstraction
Instantiate ==
  \E id \in Instantiable :
    \E r \in {instantiate(ctx, ctx.types, id)} :
       /\ Fits(r.types)
       /\ ctx' = [ctx EXCEPT !.types = r.types]
       /\ strong' = strong \cup Range(r.inst.args) \cup Range(r.inst.coargs)
                      \cup (IF r.inst.type # None THEN {r.inst.type} ELSE {})
       /\ last' = [NoCall EXCEPT !.op = "instantiate", !.id = id,
                                  !.inst = r.inst]
       /\ UNCHANGED <<nunify, pipeVars>>

\* unify_rec reaches its (concrete, concrete) case at the top
BothConcrete(types, a, b) ==
  /\ chain_end(types, a) # chain_end(types, b)
  /\ types[chain_end(types, a) + 1].k = "con"
  /\ types[chain_end(types, b) + 1].k = "con"

\* a client unifies two strong handles; a Unification_exception leaves the
\* bindings made before it
Unify ==
  \E a \in strong, b \in strong :
    \E r \in {unify(ctx.types, a, b)} :
       /\ nunify < MaxUnify
       /\ nunify' = nunify + 1
       /\ ctx' = [ctx EXCEPT !.types = r.types]
       /\ last' = [NoCall EXCEPT !.op = "unify", !.err = r.err,
                                  !.rec = BothConcrete(ctx.types, a, b)]
       /\ UNCHANGED <<strong, pipeVars>>

StoreInit ==
  /\ ctx = default_typing_context
  /\ strong = {get_primitive_prototype(default_typing_context, integer)}
  /\ last = NoCall
  /\ nunify = 0
  /\ PipeIdle

StoreNext ==
  \/ FreshTypeVariable
  \/ AddDefinition
  \/ Instantiate
  \/ Unify

SpecStore == StoreInit /\ [][StoreNext]_vars

(***************************************************************************)
(* unify on the stores that two instantiate calls leave                    *)
(***************************************************************************)

\* the instantiate calls a client made before: the store and the handles
\* they gave it; returns [types, strong]
RECURSIVE Prepared(_, _, _)
Prepared(ids, i, got) ==
  IF i > Len(ids) THEN got
  ELSE (CHOOSE picked \in {(
      Prepared(ids, i + 1,
                  [types |-> r.types,
                   strong |-> got.strong \cup Range(r.inst.args) \cup Range(r.inst.coargs)
                                \cup (IF r.inst.type # None THEN {r.inst.type} ELSE {})])
    ) : r \in {instantiate(default_typing_context, got.types, ids[i])}} : TRUE)

\* the structors that were instantiated, two of them in any order
PreparedStructors == {list_cons, pair_pair}

Preparations == {<<a, b>> : a \in PreparedStructors, b \in PreparedStructors}

UnifyInit ==
  /\ \E p \in Preparations :
        \E r \in {Prepared(p, 1, [types |-> default_typing_context.types,
                                  strong |-> {get_primitive_prototype(
                                                default_typing_context, integer)}])} :
           /\ ctx = [default_typing_context EXCEPT !.types = r.types]
           /\ strong = r.strong
  /\ last = NoCall
  /\ nunify = 0
  /\ PipeIdle

UnifyNext == Unify

SpecUnify == UnifyInit /\ [][UnifyNext]_vars

(***************************************************************************)
(* The properties of the program                                           *)
(***************************************************************************)

\* the run of the program that is going on, or the last one, ended this way
Ended(how) == runs # <<>> /\ Last(runs) = how

\* C1: a program that parse_program and type_program accept never raises the
\* stuck-computation error: no run of it ended stuck, and no outcome of the
\* next step of the statement being reduced is stuck
TypedNeverStuck ==
  typed = "ok" =>
    /\ "stuck" \notin Range(runs)
    /\ phase = "running" => \A o \in step(interp, current) : o.k # "stuck"

\* a typed program with statements was run to its normal return
TypedRunReturned ==
  /\ typed = "ok"
  /\ Ended("returned")
  /\ results # <<>>
  /\ interp.n_vars > parser.n_vars_

\* the kinds of producer that are values
ValueKinds == {"Value_prod", "Cocase_prod", "Constructor_prod"}

\* run returned normally and its list is at hand
Returned == phase = "ready" /\ Ended("returned")

\* the list run returns: one entry per statement, each a value
OneValuePerStatement ==
  Returned =>
    /\ Len(results) = Len(interp.statements)
    /\ \A i \in 1..Len(results) :
         results[i].k \in ValueKinds /\ is_value(results[i]).v

\* the list changes only by starting empty or by a push at its back; a push is
\* made for statement Len(results) + 1, which is then a cut of a value producer
\* against <END>, and the value is what is pushed
PushInOrder ==
  results' # results =>
    \/ results' = <<>>
    \/ /\ phase = "running"
       /\ si = Len(results) + 1
       /\ current.k = "Cut_stmt"
       /\ current.consumer.k = "End_cons"
       /\ current.producer.k \in ValueKinds
       /\ Len(results') = Len(results) + 1
       /\ SubSeq(results', 1, Len(results)) = results
       /\ is_value(Last(results')).node = is_value(current.producer).node
       /\ si' \in {si + 1, 0}

\* C2: when run returns normally its list has exactly one entry per program
\* statement, in program order; the statements are reduced one after another,
\* and entry i is the value producer that was cut against <END> in the last
\* step of statement i
ResultsInProgramOrder == []OneValuePerStatement /\ [][PushInOrder]_vars

\* a program of two statements was run to its normal return
TwoResultsReturned ==
  /\ Returned
  /\ Len(results) = 2
  /\ results[1] # results[2]

\* C3: an Interpreter is single-use: once run has been invoked on it, every
\* later invocation fails with the already-run error and makes no reduction
\* step, whatever the outcome of the first invocation
SingleUse ==
  Len(runs) >= 1 =>
    /\ phase # "running"
    /\ \A i \in 2..Len(runs) : runs[i] = "already_run"

\* the type a handle denotes, as a tree: a variable is named by the handle its
\* forwarding chain ends at
IsVar(t) == "v" \in DOMAIN t

RECURSIVE Denote(_, _)
Denote(types, h) ==
  (CHOOSE picked \in {(
      IF types[e + 1].k = "var" THEN [v |-> e]
    ELSE [tid |-> types[e + 1].tid,
          ps |-> [i \in 1..Len(types[e + 1].params) |->
                    Denote(types, types[e + 1].params[i])]]
    ) : e \in {chain_end(types, h)}} : TRUE)

\* Robinson's algorithm on trees, with a substitution in triangular form:
\* what a term is under the substitution
RECURSIVE Walk(_, _)
Walk(sub, t) == IF IsVar(t) /\ t.v \in DOMAIN sub THEN Walk(sub, sub[t.v]) ELSE t

\* variable v occurs in term t under the substitution
RECURSIVE OccursIn(_, _, _)
OccursIn(sub, v, t) ==
  (CHOOSE picked \in {(
      IF IsVar(w) THEN w.v = v ELSE \E i \in 1..Len(w.ps) : OccursIn(sub, v, w.ps[i])
    ) : w \in {Walk(sub, t)}} : TRUE)

\* the equations of todo are solved from the left: "" when they have a
\* unifier, else the reason there is none
RECURSIVE Robinson(_, _)
Robinson(todo, sub) ==
  IF todo = <<>> THEN ""
  ELSE (CHOOSE picked \in {(
      (CHOOSE picked \in {(
           IF IsVar(s) /\ IsVar(t) /\ s.v = t.v THEN Robinson(Tail(todo), sub)
         ELSE IF IsVar(t)
           THEN (IF OccursIn(sub, t.v, s) THEN "occurs"
                 ELSE Robinson(Tail(todo), MapPut(sub, t.v, s)))
         ELSE IF IsVar(s)
           THEN (IF OccursIn(sub, s.v, t) THEN "occurs"
                 ELSE Robinson(Tail(todo), MapPut(sub, s.v, t)))
         ELSE IF s.tid # t.tid THEN "mismatch"
         ELSE Robinson([i \in 1..Len(s.ps) |-> <<s.ps[i], t.ps[i]>>] \o Tail(todo),
                       sub)
         ) : t \in {Walk(sub, todo[1][2])}} : TRUE)
    ) : s \in {Walk(sub, todo[1][1])}} : TRUE)

\* C4: unify(a, b) is Robinson unification on the store: it succeeds exactly
\* when the types a and b denote have a unifier, and then a and b denote
\* identical types; it fails with kind occurs when a variable meets a
\* different type that contains it and with kind mismatch when two concrete
\* types with different type ids meet
UnifyIsRobinson ==
  \A a, b \in strong :
    (CHOOSE picked \in {(
        /\ r.err = Robinson(<< <<Denote(ctx.types, a), Denote(ctx.types, b)>> >>, <<>>)
      /\ r.err = "" => Denote(r.types, a) = Denote(r.types, b)
      ) : r \in {unify(ctx.types, a, b)}} : TRUE)

\* a unify of two concrete types failed with a mismatch at a parameter, and
\* the store holds pairs of concrete types whose unify fails with an occurs
\* error at a parameter and pairs whose unify succeeds
UnifiedAndFailing ==
  /\ last.op = "unify"
  /\ last.err = "mismatch"
  /\ last.rec
  /\ \E a, b \in strong :
        BothConcrete(ctx.types, a, b) /\ unify(ctx.types, a, b).err = "occurs"
  /\ \E a, b \in strong :
        /\ BothConcrete(ctx.types, a, b)
        /\ \E f \in 1..Len(ctx.types) : ctx.types[f].k = "fwd"
        /\ unify(ctx.types, a, b).err = ""

\* the handles a slot of the store refers to: the target of a forwarding, the
\* parameters of a concrete type
Refers(types, h) ==
  IF types[h + 1].k = "fwd" THEN {types[h + 1].to}
  ELSE IF types[h + 1].k = "con" THEN Range(types[h + 1].params)
  ELSE {}

\* the handles reached from the set S in one or more steps
RECURSIVE ReachedFrom(_, _, _)
ReachedFrom(types, S, seen) ==
  (CHOOSE picked \in {(
      IF new = {} THEN seen ELSE ReachedFrom(types, new, seen \cup new)
    ) : new \in {UNION {Refers(types, h) : h \in S} \ seen}} : TRUE)

Acyclic(types) ==
  \A h \in 0..(Len(types) - 1) : h \notin ReachedFrom(types, {h}, {})

\* C5: after any sequence of fresh_type_variable, add_definition, instantiate
\* and unify calls, failed unify calls included, the type store is acyclic:
\* following forwarding links and parameters from a handle never leads back
\* to it
StoreAcyclic == Acyclic(ctx.types)

\* a unify call failed its occurs check on a store in which a variable is
\* bound to a concrete type with parameters
OccursFailureOnBoundStore ==
  /\ last.op = "unify"
  /\ last.err = "occurs"
  /\ \E h \in 1..Len(ctx.types) :
        /\ ctx.types[h].k = "fwd"
        /\ ctx.types[chain_end(ctx.types, h - 1) + 1].k = "con"
        /\ ctx.types[chain_end(ctx.types, h - 1) + 1].params # <<>>

\* the variables at corresponding places of two trees, <<None, None>> where
\* the trees differ in shape
RECURSIVE VarPairs(_, _)
VarPairs(s, t) ==
  IF IsVar(s) /\ IsVar(t) THEN {<<s.v, t.v>>}
  ELSE IF IsVar(s) \/ IsVar(t) THEN {<<None, None>>}
  ELSE IF s.tid # t.tid \/ Len(s.ps) # Len(t.ps) THEN {<<None, None>>}
  ELSE UNION {VarPairs(s.ps[i], t.ps[i]) : i \in 1..Len(s.ps)}

\* the handles of a signature or of an instance: args, coargs, result type
Handles(x) == x.args \o x.coargs \o (IF x.type # None THEN <<x.type>> ELSE <<>>)

\* instantiate(id) on the context cx returns new handles only, and a copy of
\* the signature in which the variables are renamed one to one
FreshIsomorphic(cx, id) ==
  (CHOOSE picked \in {(
      (CHOOSE picked \in {(
      (CHOOSE picked \in {(
      /\ Len(r.inst.args) = Len(cx.abstractions[id + 1].args)
    /\ Len(r.inst.coargs) = Len(cx.abstractions[id + 1].coargs)
    /\ (r.inst.type = None) = (cx.abstractions[id + 1].type = None)
    /\ \A h \in Range(dst) \cup ReachedFrom(r.types, Range(dst), {}) :
         h >= Len(cx.types)
    /\ (CHOOSE picked \in {(
        /\ <<None, None>> \notin pairs
         /\ \A p, q \in pairs : (p[1] = q[1]) <=> (p[2] = q[2])
      ) : pairs \in {UNION {VarPairs(Denote(cx.types, src[i]), Denote(r.types, dst[i])) :
                     i \in 1..Len(src)}}} : TRUE)
    ) : dst \in {Handles(r.inst)}} : TRUE)
    ) : src \in {Handles(cx.abstractions[id + 1])}} : TRUE)
    ) : r \in {instantiate(cx, cx.types, id)}} : TRUE)

\* in an instance of Cons the element type, the parameter of the tail's list
\* and the parameter of the result's list are one variable
ConsSharesElement(cx) ==
  (CHOOSE picked \in {(
      /\ IsVar(Denote(r.types, r.inst.args[1]))
    /\ Denote(r.types, r.inst.args[2])
         = [tid |-> list, ps |-> <<Denote(r.types, r.inst.args[1])>>]
    /\ Denote(r.types, r.inst.type) = Denote(r.types, r.inst.args[2])
    ) : r \in {instantiate(cx, cx.types, list_cons)}} : TRUE)

IsProgram(name) == given.kind = "program" /\ given.name = name

\* the causes of the errors type_program collected
Causes == [i \in 1..Len(type_errors) |-> type_errors[i].cause]

\* C6: instantiate(id) returns an instance whose handles, and all that is
\* reachable from them, are newly allocated, and whose type graph is
\* isomorphic to the abstraction's current signature, shared variables staying
\* shared; an instance of Cons has one variable for the element, the tail and
\* the result, so a list mixing an integer and a list is rejected with a
\* mismatch
InstantiateFreshCopy ==
  /\ \A id \in 0..(Len(ctx.abstractions) - 1) : FreshIsomorphic(ctx, id)
  /\ ConsSharesElement(ctx)
  /\ IsProgram("poly_list_bad") /\ typed # "no"
       => typed = "fail" /\ Causes = <<"mismatch">>

\* ListMap and PairSum were type checked and called: their signatures hold
\* concrete types with shared variables, and the typer instantiated them
SignaturesInstantiated ==
  /\ IsProgram("map_sum_pair")
  /\ typed = "ok"
  /\ \E id \in Len(builtin_structors)..(Len(ctx.abstractions) - 1) :
       \E i, j \in 1..Len(Handles(ctx.abstractions[id + 1])) :
          /\ i # j
          /\ ~IsVar(Denote(ctx.types, Handles(ctx.abstractions[id + 1])[i]))
          /\ VarPairs(Denote(ctx.types, Handles(ctx.abstractions[id + 1])[i]),
                      Denote(ctx.types, Handles(ctx.abstractions[id + 1])[i]))
               \cap VarPairs(Denote(ctx.types, Handles(ctx.abstractions[id + 1])[j]),
                             Denote(ctx.types, Handles(ctx.abstractions[id + 1])[j]))
               # {}


\* a call of the definition id, met while that definition is being checked,
\* gets the handles of the signature itself and allocates nothing
SelfCallUsesSignature(cx, id) ==
  (CHOOSE picked \in {(
      /\ got.types = cx.types
    /\ Handles(got.inst) = Handles(cx.abstractions[id + 1])
    ) : got \in {abstraction_instance([Typer(cx, <<>>) EXCEPT !.current_definition = id], id)}} : TRUE)

\* C7: polymorphic recursion is rejected: inside a definition's body a call of
\* that definition is typed against the definition's own signature handles,
\* so a self-call with an argument of another type than the parameter fails
\* the type check; (def PolyRec (x) () (PolyRec ((Pair (x x))) ())) is
\* rejected with a type error
PolymorphicRecursionRejected ==
  /\ \A id \in Len(builtin_structors)..(Len(ctx.abstractions) - 1) :
       SelfCallUsesSignature(ctx, id)
  /\ (IsProgram("poly_recursion_bad") \/ IsProgram("self_call_list")) /\ typed # "no"
       => typed = "fail" /\ type_errors # <<>>

\* PolyRec was checked and rejected: the parameter's type occurs in the type
\* of the argument of the self-call
PolyRecRejected ==
  /\ IsProgram("poly_recursion_bad")
  /\ typed = "fail"
  /\ Causes = <<"occurs">>


\* the kinds of the producers and consumers in and below a node whose type
\* slot is empty
RECURSIVE UntypedKinds(_)
UntypedBelow(nodes) == UNION {UntypedKinds(nodes[i]) : i \in 1..Len(nodes)}

UntypedKinds(n) ==
  (IF "type" \in DOMAIN n /\ n.type = None THEN {n.k} ELSE {})
  \cup (IF "body" \in DOMAIN n THEN UntypedKinds(n.body) ELSE {})
  \cup (IF "args" \in DOMAIN n THEN UntypedBelow(n.args) \cup UntypedBelow(n.coargs)
        ELSE {})
  \cup (IF "clauses" \in DOMAIN n THEN UntypedBelow(n.clauses) ELSE {})
  \cup (IF "left" \in DOMAIN n
          THEN UntypedKinds(n.left) \cup UntypedKinds(n.right) \cup UntypedKinds(n.after)
        ELSE {})
  \cup (IF "condition" \in DOMAIN n
          THEN UntypedKinds(n.condition) \cup UntypedKinds(n.if_zero)
                 \cup UntypedKinds(n.if_other)
        ELSE {})
  \cup (IF "producer" \in DOMAIN n
          THEN UntypedKinds(n.producer) \cup UntypedKinds(n.consumer)
        ELSE {})

\* C8: after type_program succeeded, every producer and consumer of the
\* program's definitions and statements has a non-empty type slot
AllNodesTyped ==
  typed = "ok" /\ phase = "parsed"
    => UntypedBelow(prog.definitions) \cup UntypedBelow(prog.statements) = {}

\* what the code keeps instead: after a successful type_program only Cocase
\* and Case nodes are left without a type
OnlyClauseListsUntyped ==
  typed = "ok" /\ phase = "parsed"
    => UntypedBelow(prog.definitions) \cup UntypedBelow(prog.statements)
         \subseteq {"Cocase_prod", "Case_cons"}


\* C9: type_program does not stop at the first unification failure: it checks
\* every definition and every statement, collects every exception thrown on the
\* way, each with the syntax element it was thrown for, into one aggregate, and
\* returns normally only when nothing was thrown
ErrorsAggregated ==
  typed # "no" =>
    /\ phase = "parsed"
         => typer.checked = Len(prog.definitions) + Len(prog.statements)
    /\ Len(type_errors) = typer.thrown
    /\ (typed = "ok") <=> (typer.thrown = 0)
    /\ \A i \in 1..Len(type_errors) :
          /\ type_errors[i].cause \in {"mismatch", "occurs"}
          /\ type_errors[i].context # ""

\* the first definition failed, the definition and the statements after it
\* were checked all the same, and two of the statements failed as well
ThreeErrorsOfOnePass ==
  /\ IsProgram("poly_recursion_then")
  /\ typed = "fail"
  /\ typer.checked = 5
  /\ Causes = <<"occurs", "mismatch", "mismatch">>


\* the clause lists of the Case and Cocase nodes in and below a node, each as
\* the sequence of its clauses' abstraction ids
RECURSIVE ClauseLists(_)
ClauseListsBelow(nodes) == UNION {ClauseLists(nodes[i]) : i \in 1..Len(nodes)}

ClauseLists(n) ==
  (IF "clauses" \in DOMAIN n
     THEN {[i \in 1..Len(n.clauses) |-> n.clauses[i].abstraction_id]}
            \cup ClauseListsBelow(n.clauses)
   ELSE {})
  \cup (IF "body" \in DOMAIN n THEN ClauseLists(n.body) ELSE {})
  \cup (IF "args" \in DOMAIN n
          THEN ClauseListsBelow(n.args) \cup ClauseListsBelow(n.coargs)
        ELSE {})
  \cup (IF "left" \in DOMAIN n
          THEN ClauseLists(n.left) \cup ClauseLists(n.right) \cup ClauseLists(n.after)
        ELSE {})
  \cup (IF "condition" \in DOMAIN n
          THEN ClauseLists(n.condition) \cup ClauseLists(n.if_zero)
                 \cup ClauseLists(n.if_other)
        ELSE {})
  \cup (IF "producer" \in DOMAIN n
          THEN ClauseLists(n.producer) \cup ClauseLists(n.consumer)
        ELSE {})

\* ids lists every structor of the type of its first one exactly once
Total(cx, ids) ==
  /\ ids # <<>>
  /\ \A i, j \in 1..Len(ids) : ids[i] = ids[j] => i = j
  /\ Range(ids) = structors_like(cx, ids[1])

\* the id the default context gives a built-in structor
BuiltinId(name) ==
  CHOOSE id \in 0..(Len(default_typing_context.abstractions) - 1) :
    default_typing_context.abstractions[id + 1].name = name

\* C10: in a program that was parsed, the clause list of every Case and Cocase
\* is not empty and holds exactly the structors of the type of its first
\* clause's structor, each once; an empty, duplicated, mixed or incomplete
\* list is a parse error
ClauseListsTotal ==
  /\ \A ids \in ClauseListsBelow(prog.definitions) \cup ClauseListsBelow(prog.statements) :
        Total(ctx, ids)
  /\ given.kind = "clauses" /\ phase # "start"
       /\ ~Total(default_typing_context,
                 [i \in 1..Len(given.names) |-> BuiltinId(given.names[i])])
       => phase = "parse_error"

\* a case with the two clauses of a list, the Cons clause first, was parsed
TwoClausesParsed ==
  /\ given.kind = "clauses"
  /\ given.names = <<"Cons", "Nil">>
  /\ phase = "parsed"
  /\ <<list_cons, list_nil>> \in ClauseListsBelow(prog.statements)


\* the ids of the variable occurrences (F "var_id") or of the covariable
\* occurrences (F "covar_id") in and below a node, in the order of the text
RECURSIVE Occurrences(_, _)
OccurrencesBelow(nodes, F) == Flat([i \in 1..Len(nodes) |-> Occurrences(nodes[i], F)])

Occurrences(n, F) ==
  IF F \in DOMAIN n THEN <<n[F]>>
  ELSE (IF "condition" \in DOMAIN n
          THEN Occurrences(n.condition, F) \o Occurrences(n.if_zero, F)
                 \o Occurrences(n.if_other, F)
        ELSE <<>>)
       \o (IF "left" \in DOMAIN n
             THEN Occurrences(n.left, F) \o Occurrences(n.right, F)
                    \o Occurrences(n.after, F)
           ELSE <<>>)
       \o (IF "producer" \in DOMAIN n
             THEN Occurrences(n.producer, F) \o Occurrences(n.consumer, F)
           ELSE <<>>)
       \o (IF "args" \in DOMAIN n
             THEN OccurrencesBelow(n.args, F) \o OccurrencesBelow(n.coargs, F)
           ELSE <<>>)
       \o (IF "clauses" \in DOMAIN n THEN OccurrencesBelow(n.clauses, F) ELSE <<>>)
       \o (IF "body" \in DOMAIN n THEN Occurrences(n.body, F) ELSE <<>>)

\* the occurrences in and below a node that no enclosing binder binds; bv and
\* bc are the ids bound by the binders around the node
RECURSIVE Unbound(_, _, _)
UnboundBelow(nodes, bv, bc) == UNION {Unbound(nodes[i], bv, bc) : i \in 1..Len(nodes)}

Unbound(n, bv, bc) ==
  (IF "var_id" \in DOMAIN n /\ n.var_id \notin bv THEN {n} ELSE {})
  \cup (IF "covar_id" \in DOMAIN n /\ n.covar_id \notin bc THEN {n} ELSE {})
  \cup (IF "body" \in DOMAIN n
          THEN Unbound(n.body,
                       bv \cup (IF "arg_id" \in DOMAIN n THEN {n.arg_id} ELSE {})
                          \cup (IF "arg_ids" \in DOMAIN n THEN Range(n.arg_ids) ELSE {}),
                       bc \cup (IF "coarg_id" \in DOMAIN n THEN {n.coarg_id} ELSE {})
                          \cup (IF "coarg_ids" \in DOMAIN n THEN Range(n.coarg_ids)
                                ELSE {}))
        ELSE {})
  \cup (IF "args" \in DOMAIN n
          THEN UnboundBelow(n.args, bv, bc) \cup UnboundBelow(n.coargs, bv, bc)
        ELSE {})
  \cup (IF "clauses" \in DOMAIN n THEN UnboundBelow(n.clauses, bv, bc) ELSE {})
  \cup (IF "left" \in DOMAIN n
          THEN Unbound(n.left, bv, bc) \cup Unbound(n.right, bv, bc)
                 \cup Unbound(n.after, bv, bc)
        ELSE {})
  \cup (IF "condition" \in DOMAIN n
          THEN Unbound(n.condition, bv, bc) \cup Unbound(n.if_zero, bv, bc)
                 \cup Unbound(n.if_other, bv, bc)
        ELSE {})
  \cup (IF "producer" \in DOMAIN n
          THEN Unbound(n.producer, bv, bc) \cup Unbound(n.consumer, bv, bc)
        ELSE {})

\* C11: in a parsed program every variable and covariable occurrence carries
\* the id of the innermost binder of its name around it (a mu', a mu, a clause
\* parameter or a definition parameter); once the scope of an inner binder has
\* ended the name means the outer binder again; an occurrence with no binder of
\* its name around it is an unknown-name parse error
InnermostBinder ==
  /\ UnboundBelow(prog.definitions, {}, {}) \cup UnboundBelow(prog.statements, {}, {})
       = {}
  /\ IsProgram("shadowing") /\ phase = "parsed"
       => Occurrences(prog.statements[1], "var_id") = <<1>>
  /\ IsProgram("scope_exit") /\ phase = "parsed"
       => /\ Occurrences(prog.definitions[1], "var_id") = <<0, 0, 0, 1, 0>>
          /\ Occurrences(prog.definitions[1], "covar_id") = <<0, 0>>
          /\ Occurrences(prog.statements[1], "var_id") = <<3, 4, 3>>
          /\ Occurrences(prog.statements[2], "covar_id") = <<2, 1>>
  /\ (IsProgram("unknown_variable") \/ IsProgram("out_of_scope")) /\ phase # "start"
       => phase = "parse_error" /\ parser.err = "unknown_name"

\* the program whose names are bound twice was parsed
ScopesEntered ==
  /\ IsProgram("scope_exit")
  /\ phase = "parsed"
  /\ parser.n_vars_ = 5
  /\ parser.n_covars_ = 3


\* the Call statements in and below a node
RECURSIVE Calls(_)
CallsBelow(nodes) == UNION {Calls(nodes[i]) : i \in 1..Len(nodes)}

Calls(n) ==
  (IF "definition_id" \in DOMAIN n THEN {n} ELSE {})
  \cup (IF "body" \in DOMAIN n THEN Calls(n.body) ELSE {})
  \cup (IF "args" \in DOMAIN n THEN CallsBelow(n.args) \cup CallsBelow(n.coargs) ELSE {})
  \cup (IF "clauses" \in DOMAIN n THEN CallsBelow(n.clauses) ELSE {})
  \cup (IF "left" \in DOMAIN n
          THEN Calls(n.left) \cup Calls(n.right) \cup Calls(n.after)
        ELSE {})
  \cup (IF "condition" \in DOMAIN n
          THEN Calls(n.condition) \cup Calls(n.if_zero) \cup Calls(n.if_other)
        ELSE {})
  \cup (IF "producer" \in DOMAIN n THEN Calls(n.producer) \cup Calls(n.consumer) ELSE {})

\* every Call of the parsed program names a definition of the program and
\* passes as many arguments and coarguments as that definition has parameters
\* and coparameters
CallsWellFormed ==
  \A c \in CallsBelow(prog.definitions) \cup CallsBelow(prog.statements) :
     /\ c.definition_id \in 0..(Len(prog.definitions) - 1)
     /\ Len(c.args) = Len(prog.definitions[c.definition_id + 1].arg_ids)
     /\ Len(c.coargs) = Len(prog.definitions[c.definition_id + 1].coarg_ids)

\* C12: every Call of a parsed program carries the index of the definition
\* with the called name, also a call of a definition in its own body and a
\* call, from a body, of a definition that comes later in the text, and its
\* argument counts are the definition's parameter counts; a wrong count is an
\* arity parse error
CallsResolve ==
  /\ CallsWellFormed
  /\ IsProgram("call_arity") /\ phase # "start"
       => phase = "parse_error" /\ parser.err = "arity_mismatch"
  /\ IsProgram("loop") /\ phase = "parsed"
       => prog.definitions[1].body.definition_id = 0
  /\ IsProgram("forward_call") /\ phase # "start"
       => /\ phase = "parsed"
          /\ prog.definitions[1].body.definition_id = 1

\* what the code does with a call of a definition that comes later
ForwardCallUnknown ==
  IsProgram("forward_call") /\ phase # "start"
    => phase = "parse_error" /\ parser.err = "unknown_name"


\* the ids that the binders in and below a node bind, in the order of the
\* text: of variables for one = "arg_id" and many = "arg_ids", of covariables
\* for one = "coarg_id" and many = "coarg_ids"
RECURSIVE Binders(_, _, _)
BindersBelow(nodes, one, many) ==
  Flat([i \in 1..Len(nodes) |-> Binders(nodes[i], one, many)])

Binders(n, one, many) ==
  (IF one \in DOMAIN n THEN <<n[one]>> ELSE <<>>)
  \o (IF many \in DOMAIN n THEN n[many] ELSE <<>>)
  \o (IF "condition" \in DOMAIN n
        THEN Binders(n.condition, one, many) \o Binders(n.if_zero, one, many)
               \o Binders(n.if_other, one, many)
      ELSE <<>>)
  \o (IF "left" \in DOMAIN n
        THEN Binders(n.left, one, many) \o Binders(n.right, one, many)
               \o Binders(n.after, one, many)
      ELSE <<>>)
  \o (IF "producer" \in DOMAIN n
        THEN Binders(n.producer, one, many) \o Binders(n.consumer, one, many)
      ELSE <<>>)
  \o (IF "args" \in DOMAIN n
        THEN BindersBelow(n.args, one, many) \o BindersBelow(n.coargs, one, many)
      ELSE <<>>)
  \o (IF "clauses" \in DOMAIN n THEN BindersBelow(n.clauses, one, many) ELSE <<>>)
  \o (IF "body" \in DOMAIN n THEN Binders(n.body, one, many) ELSE <<>>)

Distinct(seq) == \A i, j \in 1..Len(seq) : seq[i] = seq[j] => i = j

VarBinders(n) == Binders(n, "arg_id", "arg_ids")

CovarBinders(n) == Binders(n, "coarg_id", "coarg_ids")

\* the binders of the parsed program have ids of their own, all below the
\* parser's counters
ParserBindersDistinct ==
  phase = "parsed" =>
    /\ Distinct(BindersBelow(prog.definitions, "arg_id", "arg_ids")
                  \o BindersBelow(prog.statements, "arg_id", "arg_ids"))
    /\ Distinct(BindersBelow(prog.definitions, "coarg_id", "coarg_ids")
                  \o BindersBelow(prog.statements, "coarg_id", "coarg_ids"))
    /\ \A id \in Range(BindersBelow(prog.definitions, "arg_id", "arg_ids")
                         \o BindersBelow(prog.statements, "arg_id", "arg_ids")) :
          id < parser.n_vars_
    /\ \A id \in Range(BindersBelow(prog.definitions, "coarg_id", "coarg_ids")
                         \o BindersBelow(prog.statements, "coarg_id", "coarg_ids")) :
          id < parser.n_covars_

\* the interpreter's counters start at the parser's, and every id of the
\* statement being reduced is below them
CountersAhead ==
  phase \in {"ready", "running", "dead"} =>
    /\ interp.n_vars >= parser.n_vars_
    /\ interp.n_covars >= parser.n_covars_
    /\ phase = "ready" /\ runs = <<>>
         => interp.n_vars = parser.n_vars_ /\ interp.n_covars = parser.n_covars_
    /\ phase = "running" =>
         /\ \A id \in Range(VarBinders(current)) \cup Range(Occurrences(current, "var_id")) :
               id < interp.n_vars
         /\ \A id \in Range(CovarBinders(current))
                        \cup Range(Occurrences(current, "covar_id")) :
               id < interp.n_covars

\* a step: no counter decreases, and a binder of the new statement that
\* neither the old statement nor the program had has an id the step allocated
AllocatesAhead ==
  /\ parser'.n_vars_ >= parser.n_vars_
  /\ parser'.n_covars_ >= parser.n_covars_
  /\ interp'.n_vars >= interp.n_vars
  /\ interp'.n_covars >= interp.n_covars
  /\ phase = "running" /\ phase' = "running" =>
       /\ Range(VarBinders(current'))
            \ (Range(VarBinders(current))
                 \cup Range(BindersBelow(interp.definitions, "arg_id", "arg_ids"))
                 \cup Range(BindersBelow(interp.statements, "arg_id", "arg_ids")))
            \subseteq interp.n_vars..(interp'.n_vars - 1)
       /\ Range(CovarBinders(current'))
            \ (Range(CovarBinders(current))
                 \cup Range(BindersBelow(interp.definitions, "coarg_id", "coarg_ids"))
                 \cup Range(BindersBelow(interp.statements, "coarg_id", "coarg_ids")))
            \subseteq interp.n_covars..(interp'.n_covars - 1)

\* C13: the parser gives every binder an id no other binder of the program
\* has; the interpreter's counters start at the parser's final ones, so every
\* id allocated while focusing differs from the parser's ids and from the ids
\* allocated before; the counters never decrease
IdentifiersFresh ==
  /\ [](ParserBindersDistinct /\ CountersAhead)
  /\ [][AllocatesAhead]_vars

\* focusing bound a variable and a covariable that the parser did not know
FocusBoundNewIds ==
  /\ phase = "running"
  /\ parser.n_vars_ > 0
  /\ \E id \in Range(VarBinders(current)) : id >= parser.n_vars_
  /\ \E id \in Range(CovarBinders(current)) : id >= parser.n_covars_


\* unify(a, b) right after a unify(a, b) that returned: it returns as well and
\* no handle of the store denotes another type than before it
RepeatIsNoOp(types, a, b) ==
  (CHOOSE picked \in {(
      first.err = "" =>
      (CHOOSE picked \in {(
          /\ second.err = ""
        /\ Len(second.types) = Len(first.types)
        /\ \A h \in 0..(Len(first.types) - 1) :
              Denote(second.types, h) = Denote(first.types, h)
        ) : second \in {unify(first.types, a, b)}} : TRUE)
    ) : first \in {unify(types, a, b)}} : TRUE)

\* C14: unification is idempotent: when unify(a, b) succeeds, a unify(a, b)
\* made right after it does not fail and leaves every handle of the store
\* denoting the type it denoted
UnifyIdempotent == \A a \in strong, b \in strong : RepeatIsNoOp(ctx.types, a, b)

\* after a successful unify there are two handles of different types whose
\* unification succeeds, so the first of the two calls binds a variable
BindingUnifyRepeated ==
  /\ last.op = "unify"
  /\ last.err = ""
  /\ \E a \in strong, b \in strong :
        /\ Denote(ctx.types, a) # Denote(ctx.types, b)
        /\ ~IsVar(Denote(ctx.types, a))
        /\ ~IsVar(Denote(ctx.types, b))
        /\ unify(ctx.types, a, b).err = ""


\* what a result is made of: the number of an IntLiteral, the name and the
\* arguments of a constructor value
RECURSIVE Plain(_)
Plain(n) ==
  IF n.k = "Value_prod" THEN n.value
  ELSE IF n.k = "Constructor_prod"
    THEN <<ctx.abstractions[n.abstraction_id + 1].name,
           [i \in 1..Len(n.args) |-> Plain(n.args[i])]>>
  ELSE n.k

\* C15: the test program (the definitions foo, ListMap and PairSum, the
\* statement that maps PairSum over the list of the pairs (1, 2) and (3, 4),
\* and (- 2 2 (mu' x (ifz x [123 <END>] [x <END>])))) parses, type checks
\* and runs to the end without getting stuck, and its results are
\* Cons(3, Cons(7, Nil)) and 123, in this order
TestProgramRuns ==
  IsProgram("test_program") =>
    /\ phase \notin {"parse_error", "dead"}
    /\ typed # "fail"
    /\ typed = "ok" => "stuck" \notin Range(runs) /\ "crash" \notin Range(runs)
    /\ typed = "ok" /\ phase = "running" /\ nsteps < MaxSteps
         => \E o \in step(interp, current) : TRUE
    /\ typed = "ok" /\ phase = "running" => nsteps < MaxSteps
    /\ typed = "ok" /\ runs # <<>> /\ runs[1] = "returned" /\ Len(runs) = 1 =>
         [i \in 1..Len(results) |-> Plain(results[i])]
           = << <<"Cons", <<3, <<"Cons", <<7, <<"Nil", <<>> >> >> >> >> >>, 123 >>

\* the test program was parsed, type checked and run, and run returned
TestProgramReturned ==
  /\ IsProgram("test_program")
  /\ typed = "ok"
  /\ runs = <<"returned">>
  /\ Len(results) = 2


\* the value the arithmetic rule gives for operands l and r: 1 for a division
\* by zero, l for a modulus by zero, and the C++ operator's result otherwise
Expected(op, l, r) ==
  IF op = "+" THEN Wrap(l + r)
  ELSE IF op = "-" THEN Wrap(l - r)
  ELSE IF op = "*" THEN Wrap(l * r)
  ELSE IF op = "/" THEN (IF r = 0 THEN 1 ELSE Wrap(TruncDiv(l, r)))
  ELSE IF r = 0 THEN l ELSE Wrap(TruncMod(l, r))

LiteralOperands ==
  /\ phase = "running"
  /\ ~is_null(current)
  /\ current.k = "Arithmetic_stmt"
  /\ current.left.k = "Value_prod"
  /\ current.right.k = "Value_prod"

ContinuesAsCut(o) ==
  /\ o.k = "Statement"
  /\ o.node = Cut_stmt(Value_prod(Expected(current.op, current.left.value,
                                           current.right.value)),
                       current.after)

\* C16: an Arithmetic step on two integer literals l and r never fails, and
\* continues as the Cut of the literal 1 (division by zero), l (modulus by
\* zero) or op(l, r) (otherwise) against the unchanged consumer
ArithmeticNeverFails ==
  LiteralOperands => \A o \in step(interp, current) : ContinuesAsCut(o)

\* the step of C16 continues as stated unless it divides the least integer
\* by -1
ArithmeticFailsOnlyAtLeastByMinusOne ==
  LiteralOperands =>
    \/ \A o \in step(interp, current) : ContinuesAsCut(o)
    \/ /\ current.op \in {"/", "%"}
       /\ current.left.value = IntMin
       /\ current.right.value = 0 - 1
       /\ Crash(interp) \in step(interp, current)

\* the division of the least integer by -1 has ended the run with a trap
LeastByMinusOneTrapped ==
  /\ given.kind = "arithmetic"
  /\ given.name = "/"
  /\ Operands[given.i] = IntMin
  /\ Operands[given.j] = 0 - 1
  /\ typed = "ok"
  /\ runs = <<"crash">>


\* the phases run in the order parse, type check, run, each only after the
\* ones before it succeeded
PhasesInOrder ==
  /\ phase = "parse_error" => typed = "no" /\ runs = <<>> /\ typer.checked = 0
  /\ typed = "fail" => phase = "parsed" /\ runs = <<>>
  /\ typed # "no" => phase # "start"
  /\ phase \in {"ready", "running", "dead"} => parser.err = "" /\ typed # "fail"

\* C17: the driver runs parse, type check and run in this order, each only
\* after the earlier ones succeeded; it exits with 1 when parsing fails, 2
\* when type checking fails, 3 when running fails, and 0 exactly when all
\* three succeed
ExitCodes ==
  /\ PhasesInOrder
  /\ phase = "parse_error" => main_exit = "1"
  /\ typed = "fail" => main_exit = "2"
  /\ typed = "ok" /\ runs # <<>> /\ runs[1] # "returned" => main_exit = "3"
  /\ main_exit = "0" <=> typed = "ok" /\ runs # <<>> /\ runs[1] = "returned"

\* the exit codes of C17 are those of the failures that main catches: a
\* parse error that is a lammm Exception, a type error, a stuck computation
ExitCodesOfCaughtFailures ==
  /\ PhasesInOrder
  /\ phase = "parse_error" /\ parser.err \notin StdExceptions => main_exit = "1"
  /\ typed = "fail" => main_exit = "2"
  /\ typed = "ok" /\ runs # <<>> /\ runs[1] = "stuck" => main_exit = "3"
  /\ main_exit = "0" <=> typed = "ok" /\ runs # <<>> /\ runs[1] = "returned"
  /\ main_exit \in {"terminate", "signal"} =>
       \/ phase = "parse_error" /\ parser.err = "invalid_argument"
       \/ typed = "ok" /\ runs # <<>> /\ runs[1] = "crash"

\* parsing has failed with an exception that main does not catch
ParseFailedUncaught ==
  phase = "parse_error" /\ parser.err = "invalid_argument" /\ main_exit = "terminate"


IsStructor(form) == given.kind = "structor" /\ given.polarity = form

WrittenPolarity == IF given.name \in {"Nil", "Cons"} THEN "producer" ELSE "consumer"

WrittenArities == structor_arities(parser, WrittenPolarity, given.name)

\* a list is written exactly where the structor has something to list
ListsMatchArity ==
  /\ given.i = 1 <=> WrittenArities.arity > 0
  /\ given.j = 1 <=> WrittenArities.coarity > 0

\* the application or the clause that was written, in the program parsed
WrittenNode ==
  IF given.polarity = "application"
    THEN (IF WrittenPolarity = "producer" THEN prog.statements[1].producer
          ELSE prog.statements[1].consumer)
  ELSE IF WrittenPolarity = "producer"
    THEN prog.statements[1].consumer.clauses[IF given.name = "Nil" THEN 1 ELSE 2]
  ELSE prog.statements[1].producer.clauses[1]

ParsedAsWritten ==
  /\ WrittenNode.abstraction_id = structor_ids(parser, WrittenPolarity)[given.name]
  /\ IF given.polarity = "application"
       THEN /\ WrittenNode.k = IF WrittenPolarity = "producer" THEN "Constructor_prod"
                               ELSE "Destructor_cons"
            /\ Len(WrittenNode.args) = WrittenArities.arity
            /\ Len(WrittenNode.coargs) = WrittenArities.coarity
     ELSE /\ Len(WrittenNode.arg_ids) = WrittenArities.arity
          /\ Len(WrittenNode.coarg_ids) = WrittenArities.coarity

\* C18 as stated: an application or a clause written with both of its
\* lists, each empty where the structor has nothing to list, parses as that
\* structor, as (Nil () ()) and (Nil () () stmt) do
BothListsAccepted ==
  given.kind = "structor" /\ given.i = 1 /\ given.j = 1 /\ phase # "start" =>
    /\ parser.err = ""
    /\ phase = "parsed" => ParsedAsWritten

\* C18, amended: an application or a clause parses, as its structor, exactly
\* when its argument list is written iff the arity is positive and its
\* coargument list is written iff the coarity is positive; an empty list for
\* an arity of zero is a parse error
ListsWrittenByArity ==
  given.kind = "structor" /\ phase # "start" =>
    /\ parser.err = "" <=> ListsMatchArity
    /\ phase = "parsed" => ParsedAsWritten

\* (Nil () ()) has been read and rejected at its first list
NilWithListsRejected ==
  /\ IsStructor("application")
  /\ given.name = "Nil"
  /\ given.i = 1
  /\ given.j = 1
  /\ phase = "parse_error"
  /\ parser.err = "unexpected_char"


\* the rule of C19 that is the first to apply to the cut of p against c
RuleOf(p, c) ==
  IF p.k = "Mu_prod" THEN 1
  ELSE IF ~is_value(p).v THEN 2
  ELSE IF c.k = "Mu_cons" THEN 3
  ELSE IF p.k = "Constructor_prod" /\ c.k = "Case_cons" THEN 4
  ELSE IF p.k = "Cocase_prod" /\ c.k = "Destructor_cons" THEN 5
  ELSE IF c.k = "End_cons" THEN 6
  ELSE 7

\* outcome o is what rule number rule makes of the cut of p against c
AppliedRule(rule, o, p, c) ==
  IF rule = 1
    THEN /\ o.k = "Statement"
         /\ o.info = "Reduce: Mu"
         /\ o.node = replace_statement(p.body, <<>>, arg_map(<<p.coarg_id>>, <<c>>))
  ELSE IF rule = 2
    THEN (IF p.k = "Variable_prod" THEN o.k = "stuck"
          ELSE /\ p.k = "Constructor_prod"
               /\ o.k = "Statement"
               /\ o.node.k = "Cut_stmt"
               /\ o.node.producer.k = "Mu_prod"
               /\ o.node.consumer = c)
  ELSE IF rule = 3
    THEN /\ o.k = "Statement"
         /\ o.info = "Reduce: Mu'"
         /\ o.node = replace_statement(c.body, arg_map(<<c.arg_id>>, <<is_value(p).node>>),
                                       <<>>)
  ELSE IF rule = 4
    THEN IF \E i \in 1..Len(c.clauses) : c.clauses[i].abstraction_id = p.abstraction_id
           THEN o.k = "Statement" /\ o.info = "Reduce: Case"
         ELSE o.k = "stuck"
  ELSE IF rule = 5
    THEN IF find_non_value(c.args).index # None
           THEN /\ o.k = "Statement"
                /\ o.node.k = "Cut_stmt"
                /\ o.node.consumer.k = "Mu_cons"
         ELSE IF \E i \in 1..Len(p.clauses) : p.clauses[i].abstraction_id = c.abstraction_id
           THEN o.k = "Statement" /\ o.info = "Reduce: Cocase"
         ELSE o.k = "stuck"
  ELSE IF rule = 6 THEN o.k = "Producer" /\ o.node = is_value(p).node
  ELSE o.k = "stuck"

AtCut == phase = "running" /\ ~is_null(current) /\ current.k = "Cut_stmt"

\* C19: a step on Cut(p, c) applies the first rule that applies, in the order
\* Mu producer, other non-value producer (stuck on a variable, else focus the
\* constructor), MuTilde consumer, constructor against case, cocase against
\* destructor (focus the destructor or dispatch), value against End, stuck;
\* so a MuTilde consumer is never given a non-value producer
CutRulesInOrder ==
  AtCut =>
    \A o \in step(interp, current) :
      AppliedRule(RuleOf(current.producer, current.consumer), o, current.producer,
                  current.consumer)

\* the steps on a cut are those of C19 but for the focus on a destructor's
\* argument, which ends the process
CutRulesButDestructorFocus ==
  AtCut =>
    \A o \in step(interp, current) :
      \/ AppliedRule(RuleOf(current.producer, current.consumer), o, current.producer,
                     current.consumer)
      \/ /\ RuleOf(current.producer, current.consumer) = 5
         /\ find_non_value(current.consumer.args).index # None
         /\ o.k = "crash"

\* a type checked program has ended at the focus on a destructor's argument
DestructorFocusCrashed ==
  /\ typed = "ok"
  /\ runs # <<>>
  /\ Last(runs) = "crash"
  /\ given.kind = "cut"
  /\ Producers[given.i] = src_ap_id


\* a producer that is a value: a literal, a cocase, or a constructor applied
\* to values
RECURSIVE IsValueTerm(_)
IsValueTerm(p) ==
  \/ p.k \in {"Value_prod", "Cocase_prod"}
  \/ /\ p.k = "Constructor_prod"
     /\ \A i \in 1..Len(p.args) : IsValueTerm(p.args[i])

\* a producer without what is_value noted in its constructors
RECURSIVE Uncached(_)
Uncached(p) ==
  IF p.k = "Constructor_prod"
    THEN [p EXCEPT !.is_value = "none",
                   !.args = [i \in 1..Len(@) |-> Uncached(@[i])]]
  ELSE p

SameTerm(p, q) == Uncached(p) = Uncached(q)

\* focused is the leftmost non-value of args, and newArgs is args with the
\* variable x in its place and every other argument as it was
ArgsFocused(args, focused, newArgs, x) ==
  /\ Len(newArgs) = Len(args)
  /\ \E i \in 1..Len(args) :
       /\ ~IsValueTerm(args[i])
       /\ \A j \in 1..(i - 1) : IsValueTerm(args[j])
       /\ SameTerm(focused, args[i])
       /\ newArgs[i] = Variable_prod(x)
       /\ \A j \in 1..Len(args) : j # i => SameTerm(newArgs[j], args[j])

\* statement t is statement s focused on its leftmost non-value
LeftmostFocus(s, t) ==
  /\ t.k = "Cut_stmt"
  /\ IF s.k = "Arithmetic_stmt"
       THEN /\ t.consumer.k = "Mu_cons"
            /\ t.consumer.body.k = "Arithmetic_stmt"
            /\ t.consumer.body.op = s.op
            /\ t.consumer.body.after = s.after
            /\ IF ~IsValueTerm(s.left)
                 THEN /\ SameTerm(t.producer, s.left)
                      /\ t.consumer.body.left = Variable_prod(t.consumer.arg_id)
                      /\ SameTerm(t.consumer.body.right, s.right)
               ELSE /\ ~IsValueTerm(s.right)
                    /\ SameTerm(t.producer, s.right)
                    /\ t.consumer.body.right = Variable_prod(t.consumer.arg_id)
                    /\ SameTerm(t.consumer.body.left, s.left)
     ELSE IF s.k = "Call_stmt"
       THEN /\ t.consumer.k = "Mu_cons"
            /\ t.consumer.body.k = "Call_stmt"
            /\ t.consumer.body.definition_id = s.definition_id
            /\ t.consumer.body.coargs = s.coargs
            /\ ArgsFocused(s.args, t.producer, t.consumer.body.args, t.consumer.arg_id)
     ELSE IF s.k = "Cut_stmt"
       THEN /\ t.consumer = s.consumer
            /\ t.producer.k = "Mu_prod"
            /\ t.producer.body.k = "Cut_stmt"
            /\ t.producer.body.consumer.k = "Mu_cons"
            /\ t.producer.body.consumer.body.k = "Cut_stmt"
            /\ t.producer.body.consumer.body.consumer
                 = Covariable_cons(t.producer.coarg_id)
            /\ t.producer.body.consumer.body.producer.k = s.producer.k
            /\ t.producer.body.consumer.body.producer.abstraction_id
                 = s.producer.abstraction_id
            /\ ArgsFocused(s.producer.args, t.producer.body.producer,
                           t.producer.body.consumer.body.producer.args,
                           t.producer.body.consumer.arg_id)
     ELSE s.k = "Ifz_stmt"

FocusInfos ==
  {"Focus: Arithmetic (left)", "Focus: Arithmetic (right)", "Focus: If-zero",
   "Focus: Call", "Focus: Constructor (constructor_name)",
   "Focus: Constructor (coarg_name)"}

\* a step of run's loop that returned a focused statement
FocusStep ==
  /\ phase = "running"
  /\ phase' = "running"
  /\ si' = si
  /\ nsteps' = nsteps + 1
  /\ printed' \in FocusInfos

UncachedStatement(s) ==
  IF s.k = "Arithmetic_stmt"
    THEN [s EXCEPT !.left = Uncached(@), !.right = Uncached(@)]
  ELSE IF s.k = "Ifz_stmt" THEN [s EXCEPT !.condition = Uncached(@)]
  ELSE IF s.k = "Call_stmt"
    THEN [s EXCEPT !.args = [i \in 1..Len(@) |-> Uncached(@[i])]]
  ELSE s

\* an Arithmetic, Ifz or Call statement with an operand, a condition or an
\* argument that is not a value
HasNonValue(s) ==
  IF s.k = "Arithmetic_stmt" THEN ~IsValueTerm(s.left) \/ ~IsValueTerm(s.right)
  ELSE IF s.k = "Ifz_stmt" THEN ~IsValueTerm(s.condition)
  ELSE IF s.k = "Call_stmt" THEN \E i \in 1..Len(s.args) : ~IsValueTerm(s.args[i])
  ELSE FALSE

\* the place of the non-value the step chooses
ChosenPlace(s) ==
  IF s.k = "Arithmetic_stmt"
    THEN (IF ~IsValueTerm(s.left) THEN At("left", 0) ELSE At("right", 0))
  ELSE IF s.k = "Ifz_stmt" THEN At("condition", 0)
  ELSE At("args", (CHOOSE i \in 1..Len(s.args) :
                     /\ ~IsValueTerm(s.args[i])
                     /\ \A j \in 1..(i - 1) : IsValueTerm(s.args[j])) - 1)

AtFocusable == phase = "running" /\ ~is_null(current) /\ HasNonValue(current)

\* outcome o is Cut(p, MuTilde(x, C[x])) for the statement C[p] being reduced:
\* x is the id the step allocated and occurs nowhere in C[p], p is the
\* producer of the cut, and the body is C[p] with x at the place of p and
\* everything else as it was
FocusedOn(o, place, x) ==
  /\ o.k = "Statement"
  /\ o.it = [interp EXCEPT !.n_vars = x + 1]
  /\ x \notin Range(Occurrences(current, "var_id")) \cup Range(VarBinders(current))
  /\ o.node.k = "Cut_stmt"
  /\ SameTerm(o.node.producer, get_at(current, place))
  /\ o.node.consumer.k = "Mu_cons"
  /\ o.node.consumer.arg_id = x
  /\ UncachedStatement(o.node.consumer.body)
       = UncachedStatement(put_at(current, place, Variable_prod(x)))

\* C21: a focusing step on an Arithmetic, Ifz or Call statement C[p], p the
\* chosen non-value, yields exactly Cut(p, MuTilde(x, C[x])) with x a newly
\* allocated variable id that occurs nowhere else, the statement under the
\* MuTilde being C[p] with only that place replaced by x, and p unchanged
FocusYieldsCut ==
  AtFocusable =>
    \A o \in step(interp, current) : FocusedOn(o, ChosenPlace(current), interp.n_vars)

\* the focusing step of C21 yields that cut whenever it returns: its other
\* outcome is the end of the process, in the builds that empty the statement's
\* Box before they read the non-value through it
FocusYieldsCutOrCrashes ==
  AtFocusable =>
    /\ \A o \in step(interp, current) :
         FocusedOn(o, ChosenPlace(current), interp.n_vars) \/ o = Crash(interp)
    /\ \E o \in step(interp, current) :
         FocusedOn(o, ChosenPlace(current), interp.n_vars)

\* a type checked program has ended at the focus on an Arithmetic operand
ArithmeticFocusCrashed ==
  /\ IsProgram("arith_focus")
  /\ typed = "ok"
  /\ runs = <<"crash">>


\* a node without what is_value noted in any constructor in or below it
RECURSIVE Bare(_)
BareAll(nodes) == [i \in 1..Len(nodes) |-> Bare(nodes[i])]

Bare(n) ==
  [f \in DOMAIN n |->
     IF f = "is_value" THEN "none"
     ELSE IF f \in {"condition", "if_zero", "if_other", "left", "right", "after",
                    "producer", "consumer", "body"}
       THEN Bare(n[f])
     ELSE IF f \in {"args", "coargs", "clauses"} THEN BareAll(n[f])
     ELSE n[f]]

\* focused is the leftmost non-value of args, and newArgs is args with the
\* variable x in its place and every other argument as it was
BareFocused(args, focused, newArgs, x) ==
  /\ Len(newArgs) = Len(args)
  /\ \E i \in 1..Len(args) :
       /\ ~IsValueTerm(args[i])
       /\ \A j \in 1..(i - 1) : IsValueTerm(args[j])
       /\ Bare(focused) = Bare(args[i])
       /\ newArgs[i] = Variable_prod(x)
       /\ \A j \in 1..Len(args) : j # i => Bare(newArgs[j]) = Bare(args[j])

\* the cut of a constructor with an argument that is not a value
AtConstructorFocus ==
  /\ AtCut
  /\ current.producer.k = "Constructor_prod"
  /\ ~IsValueTerm(current.producer)

\* the cut of a cocase against a destructor with an argument that is not a
\* value
AtDestructorFocus ==
  /\ AtCut
  /\ current.producer.k = "Cocase_prod"
  /\ current.consumer.k = "Destructor_cons"
  /\ \E i \in 1..Len(current.consumer.args) : ~IsValueTerm(current.consumer.args[i])

\* what a step and the step after it yield: the outcomes of the second step,
\* or the outcome of the first when it did not return a statement
two_steps(it, stmt) ==
  UNION {IF o.k = "Statement" THEN step(o.it, o.node) ELSE {o} : o \in step(it, stmt)}

\* outcome o is Cut(p, MuTilde(x, Cut(K(..x..), c))) for the cut of K(..p..)
\* against c being reduced
ConstructorFocused(o) ==
  /\ o.k = "Statement"
  /\ o.it = [interp EXCEPT !.n_vars = @ + 1, !.n_covars = @ + 1]
  /\ o.node.k = "Cut_stmt"
  /\ o.node.consumer.k = "Mu_cons"
  /\ o.node.consumer.arg_id = interp.n_vars
  /\ interp.n_vars \notin Range(Occurrences(current, "var_id"))
                            \cup Range(VarBinders(current))
  /\ o.node.consumer.body.k = "Cut_stmt"
  /\ Bare(o.node.consumer.body.consumer) = Bare(current.consumer)
  /\ o.node.consumer.body.producer.k = "Constructor_prod"
  /\ o.node.consumer.body.producer.abstraction_id = current.producer.abstraction_id
  /\ BareAll(o.node.consumer.body.producer.coargs) = BareAll(current.producer.coargs)
  /\ BareFocused(current.producer.args, o.node.producer,
                 o.node.consumer.body.producer.args, interp.n_vars)

\* outcome o is Cut(p, MuTilde(x, Cut(cocase, D(..x..; coargs)))) for the cut
\* of the cocase against D(..p..; coargs) being reduced
DestructorFocused(o) ==
  /\ o.k = "Statement"
  /\ o.node.k = "Cut_stmt"
  /\ o.node.consumer.k = "Mu_cons"
  /\ o.node.consumer.arg_id \notin Range(Occurrences(current, "var_id"))
                                     \cup Range(VarBinders(current))
  /\ o.node.consumer.body.k = "Cut_stmt"
  /\ Bare(o.node.consumer.body.producer) = Bare(current.producer)
  /\ o.node.consumer.body.consumer.k = "Destructor_cons"
  /\ o.node.consumer.body.consumer.abstraction_id = current.consumer.abstraction_id
  /\ BareAll(o.node.consumer.body.consumer.coargs) = BareAll(current.consumer.coargs)
  /\ BareFocused(current.consumer.args, o.node.producer,
                 o.node.consumer.body.consumer.args, o.node.consumer.arg_id)

\* the constructor half of C22: focusing Cut(K(..p..), c) on the leftmost
\* non-value p and the step after it yield Cut(p, MuTilde(x, Cut(K(..x..), c)))
\* with x fresh, the other arguments, the coarguments and c as they were
ConstructorFocusPreservesCut ==
  AtConstructorFocus => \A o \in two_steps(interp, current) : ConstructorFocused(o)

\* C22: structor focusing preserves the cut it sits in: the focusing step and
\* the step after it yield Cut(p, MuTilde(x, Cut(K(..x..), c))) for
\* Cut(K(..p..), c), and Cut(p, MuTilde(x, Cut(cocase, D(..x..; coargs)))) for
\* Cut(cocase, D(..p..; coargs)), p the leftmost non-value argument and x
\* fresh; the cocase or consumer, the other arguments and the coarguments are
\* unchanged
StructorFocusPreservesCut ==
  /\ ConstructorFocusPreservesCut
  /\ AtDestructorFocus => \A o \in two_steps(interp, current) : DestructorFocused(o)

\* the destructor half of C22 never yields a statement: its focusing step
\* ends the process
DestructorFocusNeverReturns ==
  AtDestructorFocus => two_steps(interp, current) = {Crash(fresh_var_id(interp).it)}

\* a constructor was focused and the step after it was made
ConstructorFocusReduced ==
  /\ phase = "running"
  /\ nsteps = 2
  /\ printed = "Reduce: Mu"
  /\ current.k = "Cut_stmt"
  /\ current.consumer.k = "Mu_cons"
  /\ current.consumer.body.k = "Cut_stmt"
  /\ current.consumer.body.producer.k = "Constructor_prod"
  /\ current.consumer.body.consumer.k = "Case_cons"


\* the variables (F "arg_id", G "arg_ids") or covariables (F "coarg_id",
\* G "coarg_ids") that node n binds in what is below it
BoundBy(n, F, G) ==
  (IF F \in DOMAIN n THEN {n[F]} ELSE {})
    \cup (IF G \in DOMAIN n THEN Range(n[G]) ELSE {})

Without(m, ids) == [x \in (DOMAIN m) \ ids |-> m[x]]

\* simultaneous substitution: every free occurrence of a variable of vm or of
\* a covariable of cm in node n is replaced by the term the map gives it, and
\* the inserted term is not substituted into; an occurrence under a binder
\* of its id is not free
RECURSIVE Subst(_, _, _)
Subst(n, vm, cm) ==
  IF "var_id" \in DOMAIN n THEN (IF n.var_id \in DOMAIN vm THEN vm[n.var_id] ELSE n)
  ELSE IF "covar_id" \in DOMAIN n
    THEN (IF n.covar_id \in DOMAIN cm THEN cm[n.covar_id] ELSE n)
  ELSE [f \in DOMAIN n |->
          IF f \in {"condition", "if_zero", "if_other", "left", "right", "after",
                    "producer", "consumer", "body"}
            THEN Subst(n[f], Without(vm, BoundBy(n, "arg_id", "arg_ids")),
                       Without(cm, BoundBy(n, "coarg_id", "coarg_ids")))
          ELSE IF f \in {"args", "coargs", "clauses"}
            THEN [i \in 1..Len(n[f]) |-> Subst(n[f][i], vm, cm)]
          ELSE n[f]]

\* the map that gives the i-th parameter the i-th argument
Bindings(ids, values) ==
  [id \in Range(ids) |-> values[CHOOSE i \in 1..Len(ids) : ids[i] = id]]

\* the structor of the cut being reduced, when the cut is up for clause
\* dispatch: a constructor value against a case, or a cocase against a
\* destructor whose arguments are all values
DispatchedStructor ==
  IF current.producer.k = "Constructor_prod" THEN current.producer ELSE current.consumer

DispatchedClauses ==
  IF current.producer.k = "Constructor_prod" THEN current.consumer.clauses
  ELSE current.producer.clauses

AtDispatch ==
  /\ AtCut
  /\ \/ /\ current.producer.k = "Constructor_prod"
        /\ IsValueTerm(current.producer)
        /\ current.consumer.k = "Case_cons"
     \/ /\ current.producer.k = "Cocase_prod"
        /\ current.consumer.k = "Destructor_cons"
        /\ \A i \in 1..Len(current.consumer.args) : IsValueTerm(current.consumer.args[i])
  /\ \E i \in 1..Len(DispatchedClauses) :
        DispatchedClauses[i].abstraction_id = DispatchedStructor.abstraction_id

\* outcome o is the body of clause number i with the arguments and the
\* coarguments of the structor in the places of its parameters
Dispatched(o, i) ==
  /\ o.k = "Statement"
  /\ o.it = interp
  /\ o.info \in {"Reduce: Case", "Reduce: Cocase"}
  /\ Len(DispatchedClauses[i].arg_ids) = Len(DispatchedStructor.args)
  /\ Len(DispatchedClauses[i].coarg_ids) = Len(DispatchedStructor.coargs)
  /\ Distinct(DispatchedClauses[i].arg_ids)
  /\ Distinct(DispatchedClauses[i].coarg_ids)
  /\ Bare(o.node)
       = Bare(Subst(DispatchedClauses[i].body,
                    Bindings(DispatchedClauses[i].arg_ids, DispatchedStructor.args),
                    Bindings(DispatchedClauses[i].coarg_ids, DispatchedStructor.coargs)))

\* C23: clause dispatch: a step on the cut of a constructor value K against a
\* case, or of a cocase against a destructor D whose arguments are all
\* values, yields the body of the one clause that has the abstraction id of K
\* or D, with the i-th parameter replaced by the i-th argument and the j-th
\* coparameter by the j-th coargument, all at once; nothing of the other
\* clauses is in the result
ClauseDispatch ==
  AtDispatch =>
    \A i \in 1..Len(DispatchedClauses) :
      DispatchedClauses[i].abstraction_id = DispatchedStructor.abstraction_id =>
        /\ \A j \in 1..Len(DispatchedClauses) :
              DispatchedClauses[j].abstraction_id = DispatchedStructor.abstraction_id
                => j = i
        /\ \A o \in step(interp, current) : Dispatched(o, i)

\* a constructor with two arguments has been dispatched to the second clause
\* of a case, or a destructor with an argument and a coargument to its clause
SecondClauseDispatched ==
  /\ given.kind = "cut"
  /\ phase = "running"
  /\ nsteps = 1
  /\ \/ /\ printed = "Reduce: Case"
        /\ Producers[given.i] = src_cons(src_int(1), src_nil)
        /\ Consumers[given.j] = src_case_list
        /\ current = Cut_stmt([Value_prod(1) EXCEPT !.type = current.producer.type],
                              current.consumer)
        /\ current.consumer.k = "End_cons"
     \/ /\ printed = "Reduce: Cocase"
        /\ Producers[given.i] = src_ap_id
        /\ current.producer.k = "Value_prod"
        /\ current.consumer.k = "End_cons"


\* the variable ids and the covariable ids in a node, bound or occurring
VarIds(n) == Range(Occurrences(n, "var_id")) \cup Range(VarBinders(n))

CovarIds(n) == Range(Occurrences(n, "covar_id")) \cup Range(CovarBinders(n))

\* bound: the number of ids that a map given to replace maps
MaxMapped == 2

\* the term a map gives an id: an occurrence of the smallest id of the node
\* (another mapped id, when that one is mapped too), a literal for that id
VarTerm(n, id) ==
  IF \E other \in VarIds(n) : other < id
    THEN Variable_prod(CHOOSE least \in VarIds(n) : \A other \in VarIds(n) : least <= other)
  ELSE Value_prod(7)

CovarTerm(n, id) ==
  IF \E other \in CovarIds(n) : other < id
    THEN Covariable_cons(CHOOSE least \in CovarIds(n) :
                           \A other \in CovarIds(n) : least <= other)
  ELSE End_cons

\* the maps replace is given for node n: up to MaxMapped ids of the node,
\* variables and covariables together
ReplaceMaps(n) ==
  {<<[id \in V |-> VarTerm(n, id)], [id \in C |-> CovarTerm(n, id)]>> :
     V \in {S \in SUBSET VarIds(n) : Cardinality(S) <= MaxMapped},
     C \in {S \in SUBSET CovarIds(n) : Cardinality(S) <= MaxMapped}}

\* some occurrence of id in node n lies under a binder of id
RECURSIVE ShadowedIn(_, _, _, _, _)
ShadowedIn(n, id, F, one, many) ==
  \/ /\ id \in BoundBy(n, one, many)
     /\ \E f \in DOMAIN n \cap {"body"} : id \in Range(Occurrences(n[f], F))
  \/ \E f \in DOMAIN n \cap {"condition", "if_zero", "if_other", "left", "right",
                             "after", "producer", "consumer", "body"} :
        ShadowedIn(n[f], id, F, one, many)
  \/ \E f \in DOMAIN n \cap {"args", "coargs", "clauses"} :
        \E i \in 1..Len(n[f]) : ShadowedIn(n[f][i], id, F, one, many)

\* C24: replace(node, var_map, covar_map) replaces exactly the free
\* occurrences of the mapped ids: an occurrence of a mapped variable under a
\* MuTilde or a clause that binds its id, or of a mapped covariable under a
\* Mu or a clause that binds its id, stays; every other occurrence of a
\* mapped id becomes a copy of the term it is mapped to; nothing else of the
\* node changes but is_value caches.  Checked on every statement a run
\* reduces, bodies copied from definitions and clauses with their binder ids
\* included
ReplacesFreeOccurrences ==
  phase = "running" /\ ~is_null(current) =>
    \A m \in ReplaceMaps(current) :
      Bare(replace_statement(current, m[1], m[2])) = Bare(Subst(current, m[1], m[2]))

\* the statement being reduced has a variable that occurs under its binder,
\* a covariable that occurs under its binder, and a binder id that it has
\* twice
BoundOccurrencesToKeep ==
  /\ phase = "running"
  /\ ~is_null(current)
  /\ \E id \in VarIds(current) : ShadowedIn(current, id, "var_id", "arg_id", "arg_ids")
  /\ \E id \in CovarIds(current) :
        ShadowedIn(current, id, "covar_id", "coarg_id", "coarg_ids")
  /\ ~Distinct(VarBinders(current))


\* the producers and consumers that a step on statement s puts in the place
\* of variables and covariables: the consumer of a Mu step, the value of a
\* MuTilde step, the arguments and coarguments of a clause dispatch or of a
\* Call
Substituted(s) ==
  IF s.k = "Cut_stmt"
    THEN (IF s.producer.k = "Mu_prod" THEN {s.consumer}
          ELSE IF ~IsValueTerm(s.producer) THEN {}
          ELSE IF s.consumer.k = "Mu_cons" THEN {s.producer}
          ELSE IF s.producer.k = "Constructor_prod" /\ s.consumer.k = "Case_cons"
            THEN Range(s.producer.args) \cup Range(s.producer.coargs)
          ELSE IF s.producer.k = "Cocase_prod" /\ s.consumer.k = "Destructor_cons"
            THEN Range(s.consumer.args) \cup Range(s.consumer.coargs)
          ELSE {})
  ELSE IF s.k = "Call_stmt" THEN Range(s.args) \cup Range(s.coargs)
  ELSE {}

\* C25: substitution during reduction never captures: in a run of a program
\* the parser produced, every statement handed to step is closed (each
\* variable and covariable occurrence lies under a binder of its id), so is
\* every producer and consumer that a Mu, MuTilde, clause dispatch or Call
\* step substitutes, and step never meets a cut whose producer is a variable
\* or whose consumer is a covariable
NeverCaptures ==
  /\ phase \in {"ready", "running", "dead"} =>
       /\ UnboundBelow(interp.definitions, {}, {}) = {}
       /\ UnboundBelow(interp.statements, {}, {}) = {}
  /\ phase = "running" /\ ~is_null(current) =>
       /\ Unbound(current, {}, {}) = {}
       /\ \A t \in Substituted(current) : Unbound(t, {}, {}) = {}
       /\ current.k = "Cut_stmt" =>
            /\ current.producer.k # "Variable_prod"
            /\ current.consumer.k # "Covariable_cons"

\* after the focus on a constructor, a Mu step has put the consumer in the
\* place of the new covariable: the statement is the cut of the non-value
\* against the MuTilde that binds the new variable and has its occurrence
ClosedTermSubstituted ==
  /\ phase = "running"
  /\ printed = "Reduce: Mu"
  /\ current.k = "Cut_stmt"
  /\ current.consumer.k = "Mu_cons"
  /\ Occurrences(current.consumer, "var_id") # <<>>
  /\ current.consumer.arg_id >= parser.n_vars_


\* every constructor in or below node n whose is_value cache is set has the
\* cached boolean right: true iff each of its arguments is a literal, a
\* cocase or a constructor applied to values, whatever its coarguments are
RECURSIVE CachesRight(_)
CachesRight(n) ==
  /\ "is_value" \in DOMAIN n /\ n.is_value # "none" =>
       (n.is_value = "true" <=> \A i \in 1..Len(n.args) : IsValueTerm(n.args[i]))
  /\ \A f \in DOMAIN n \cap {"condition", "if_zero", "if_other", "left", "right",
                             "after", "producer", "consumer", "body"} :
        CachesRight(n[f])
  /\ \A f \in DOMAIN n \cap {"args", "coargs", "clauses"} :
        \A i \in 1..Len(n[f]) : CachesRight(n[f][i])

\* some constructor in or below node n has its cache set to what
HasCache(n, what) ==
  \E i \in 1..Len(Occurrences(n, "is_value")) : Occurrences(n, "is_value")[i] = what

\* C26: the is_value cache is consistent at every point of a run: for every
\* constructor anywhere in the statement being reduced whose cache is set,
\* the cached boolean is the value predicate of its arguments; a cached true
\* is never made wrong by a substitution, and a cached false does not outlive
\* the substitution that makes the constructor a value
CacheConsistent ==
  /\ phase = "running" /\ ~is_null(current) => CachesRight(current)
  /\ \A i \in 1..Len(results) : CachesRight(results[i])
  /\ \A i \in 1..Len(interp.definitions) : CachesRight(interp.definitions[i])

\* a MuTilde step has put a value in the place of the variable of a focused
\* constructor, whose cache held false: the constructor is a value now and
\* its cache is cleared, and its other argument holds a cached true
FalseCacheCleared ==
  /\ phase = "running"
  /\ printed = "Reduce: Mu'"
  /\ current.k = "Cut_stmt"
  /\ current.producer.k = "Constructor_prod"
  /\ IsValueTerm(current.producer)
  /\ current.producer.is_value = "none"
  /\ current.producer.args[1].k = "Value_prod"
  /\ HasCache(current.producer.args[2], "true")


\* no clause of the list has the abstraction id
NoClauseOf(clauses, id) == \A i \in 1..Len(clauses) : clauses[i].abstraction_id # id

\* the situations of C27 for statement s
StuckSituation(s) ==
  IF s.k = "Arithmetic_stmt"
    THEN /\ IsValueTerm(s.left)
         /\ IsValueTerm(s.right)
         /\ ~(s.left.k = "Value_prod" /\ s.right.k = "Value_prod")
  ELSE IF s.k = "Ifz_stmt"
    THEN IsValueTerm(s.condition) /\ s.condition.k # "Value_prod"
  ELSE IF s.k = "Cut_stmt"
    THEN \/ s.producer.k = "Variable_prod"
         \/ IsValueTerm(s.producer) /\ s.consumer.k = "Covariable_cons"
         \/ /\ s.producer.k = "Constructor_prod"
            /\ IsValueTerm(s.producer)
            /\ s.consumer.k = "Destructor_cons"
         \/ s.producer.k = "Cocase_prod" /\ s.consumer.k = "Case_cons"
         \/ s.producer.k = "Value_prod" /\ s.consumer.k \in {"Case_cons", "Destructor_cons"}
         \/ /\ s.producer.k = "Constructor_prod"
            /\ IsValueTerm(s.producer)
            /\ s.consumer.k = "Case_cons"
            /\ NoClauseOf(s.consumer.clauses, s.producer.abstraction_id)
         \/ /\ s.producer.k = "Cocase_prod"
            /\ s.consumer.k = "Destructor_cons"
            /\ \A i \in 1..Len(s.consumer.args) : IsValueTerm(s.consumer.args[i])
            /\ NoClauseOf(s.producer.clauses, s.consumer.abstraction_id)
  ELSE FALSE

\* a step on s raises the stuck-computation error exactly in the situations
\* of C27, and the error carries s
StuckExactlyAt(s) ==
  /\ step(interp, s) # {}
  /\ \A o \in step(interp, s) :
       /\ o.k = "stuck" <=> StuckSituation(s)
       /\ o.k = "stuck" => Bare(o.node) = Bare(s)

\* cuts that no run of a parsed program reduces: a variable as the producer,
\* a value against a covariable
OpenCuts ==
  {Cut_stmt(Variable_prod(0), End_cons),
   Cut_stmt(Variable_prod(0), Mu_cons(1, Cut_stmt(Variable_prod(1), End_cons))),
   Cut_stmt(Value_prod(1), Covariable_cons(0)),
   Cut_stmt(Constructor_prod(list_nil, <<>>, <<>>), Covariable_cons(0)),
   Cut_stmt(Cocase_prod(<<>>), Covariable_cons(0))}

DefinitionIds(cx) == Len(builtin_structors)..(Len(cx.abstractions) - 1)

\* what check_abstraction takes for a call of definition id while
\* current_definition is cur: the signature's own handles iff cur is id, new
\* handles otherwise
InstanceBySite(cx, id, cur) ==
  (CHOOSE picked \in {(
      IF cur = id
        THEN /\ got.types = cx.types
             /\ Handles(got.inst) = Handles(cx.abstractions[id + 1])
      ELSE /\ Len(Handles(got.inst)) = Len(Handles(cx.abstractions[id + 1]))
           /\ \A h \in Range(Handles(got.inst)) : h >= Len(cx.types)
           /\ \A h \in 0..(Len(cx.types) - 1) :
                 Denote(got.types, h) = Denote(cx.types, h)
    ) : got \in {abstraction_instance([Typer(cx, <<>>) EXCEPT !.current_definition = cur],
                                      id)}} : TRUE)

\* the typer after the first loop of type_program
DefinitionsChecked ==
  type_definitions(Typer(ctx, prog.definitions), prog.definitions, 1, <<>>)

\* the calls in the top-level statements that the second loop of
\* type_program checks against the signature's own handles: the calls of the
\* definition that is noted as the current one after the first loop
StatementCallsOfCurrent(d) ==
  {c \in CallsBelow(prog.statements) :
     prog.definitions[c.definition_id + 1].abstraction_id = d.ts.current_definition}

\* the second loop of type_program leaves every handle of every definition's
\* signature denoting the type it denoted after the first loop
SignaturesKept(d) ==
  (CHOOSE picked \in {(
      \A id \in DefinitionIds(ctx) :
        \A h \in Range(Handles(ctx.abstractions[id + 1])) :
          Denote(s.ts.ctx.types, h) = Denote(d.ts.ctx.types, h)
    ) : s \in {type_statements(d.ts, prog.statements, 1, d.errors)}} : TRUE)

\* C28: a Call is checked against the callee's own signature handles iff it
\* is in the body of the definition it calls; every other Call, from another
\* definition's body or from a top-level statement, also after an earlier
\* definition failed the check, is checked against a fresh instance, so that
\* checking it never changes the callee's signature and a definition can be
\* used at several types
CallsCheckedBySite ==
  /\ \A id \in DefinitionIds(ctx), cur \in DefinitionIds(ctx) \cup {None} :
        InstanceBySite(ctx, id, cur)
  /\ phase = "parsed" /\ typed = "no" =>
       /\ StatementCallsOfCurrent(DefinitionsChecked) = {}
       /\ SignaturesKept(DefinitionsChecked)
  /\ IsProgram("id_twice") /\ typed # "no" => typed = "ok"

\* the calls are checked as C28 says unless the last definition of the
\* program failed the check: the top-level statements are then checked with
\* that definition still noted as the current one
CallsCheckedBySiteUnlessLastFailed ==
  /\ \A id \in DefinitionIds(ctx), cur \in DefinitionIds(ctx) \cup {None} :
        InstanceBySite(ctx, id, cur)
  /\ phase = "parsed" /\ typed = "no" =>
       \/ /\ StatementCallsOfCurrent(DefinitionsChecked) = {}
          /\ SignaturesKept(DefinitionsChecked)
       \/ /\ prog.definitions # <<>>
          /\ DefinitionsChecked.ts.current_definition
               = Last(prog.definitions).abstraction_id
          /\ DefinitionsChecked.ts.err # ""
  /\ IsProgram("id_twice") /\ typed # "no" => typed = "ok"

\* the calls Bad(1) and Bad(Nil) after the definition Bad that failed the
\* check: the second call is an error of its own
CallAfterFailedDefinitionRejected ==
  /\ IsProgram("failed_then_called")
  /\ typed = "fail"
  /\ Len(type_errors) = 2
  /\ type_errors[2].context = "Constructor_prod"


\* run is about to step a Call whose arguments are all values
AtCallOfValues ==
  /\ phase = "running"
  /\ ~is_null(current)
  /\ current.k = "Call_stmt"
  /\ \A i \in 1..Len(current.args) : IsValueTerm(current.args[i])

CalledDefinition == interp.definitions[current.definition_id + 1]

\* every outcome of the step on the Call is the body of the called definition
\* with the arguments and the coarguments of the Call in the places of the
\* parameters, and the interpreter that comes with it is the one before
CallInstantiatesBody ==
  AtCallOfValues =>
    /\ Len(CalledDefinition.arg_ids) = Len(current.args)
    /\ Len(CalledDefinition.coarg_ids) = Len(current.coargs)
    /\ Distinct(CalledDefinition.arg_ids)
    /\ Distinct(CalledDefinition.coarg_ids)
    /\ \A o \in step(interp, current) :
         /\ o.k = "Statement"
         /\ o.info = "Reduce: Call"
         /\ o.it = interp
         /\ Bare(o.node)
              = Bare(Subst(CalledDefinition.body,
                           Bindings(CalledDefinition.arg_ids, current.args),
                           Bindings(CalledDefinition.coarg_ids, current.coargs)))

\* the interpreter is constructed with the definitions of the parsed program,
\* and no later step of run changes them
DefinitionsStay ==
  IF phase = "parsed" /\ phase' = "ready" THEN interp'.definitions = prog.definitions
  ELSE phase \in {"ready", "running"} => interp'.definitions = interp.definitions

\* C29: no reduction step changes the interpreter's table of definitions: a
\* Call step whose arguments are all values yields the body of the definition
\* with the arguments and coarguments substituted for the parameters and
\* leaves the definition as it was parsed, so a later Call of the same
\* definition, a recursive one too, starts from the same body, and a
\* definition that is never called is never reduced
DefinitionsNeverModified == []CallInstantiatesBody /\ [][DefinitionsStay]_vars

\* the recursive Call of Down, the second Call of the definition in the run,
\* has been reduced to the body of Down with 0 and <END> for x and k, and the
\* table still holds the body with the parameters in it
RecursiveCallReduced ==
  /\ IsProgram("self_call_int")
  /\ phase = "running"
  /\ nsteps = 3
  /\ printed = "Reduce: Call"
  /\ current.k = "Ifz_stmt"
  /\ current.condition.k = "Value_prod"
  /\ current.condition.value = 0
  /\ current.if_zero.consumer.k = "End_cons"
  /\ interp.definitions[1].body.condition.k = "Variable_prod"
  /\ interp.definitions[1].body.if_zero.consumer.k = "Covariable_cons"


\* the prototype of built-in type tid is, in the context cx, the concrete
\* type tid applied to variables that are unbound and distinct, as many as
\* the builtin_types table says
PrototypeGeneral(cx, tid) ==
  (CHOOSE picked \in {(
      /\ ~IsVar(proto)
      /\ proto.tid = tid
      /\ Len(proto.ps) = builtin_types[tid + 1]
      /\ \A i \in 1..Len(proto.ps) : IsVar(proto.ps[i])
      /\ Distinct(proto.ps)
    ) : proto \in {Denote(cx.types, cx.type_prototypes[tid + 1])}} : TRUE)

\* the type the template denotes when its variables are the parameters of
\* the prototype of type tid in the context cx
RECURSIVE TemplateDenotes(_, _, _)
TemplateDenotes(cx, tid, template) ==
  IF template.k = "tv"
    THEN Denote(cx.types, cx.type_prototypes[tid + 1]).ps[template.id + 1]
  ELSE [tid |-> template.tid,
        ps |-> [i \in 1..Len(template.params) |->
                  TemplateDenotes(cx, tid, template.params[i])]]

\* the signature of built-in structor id in the context cx is the one it was
\* added with: its type is the prototype of its type, and its argument and
\* coargument types are its templates over the variables of that prototype
SignatureGeneral(cx, id) ==
  /\ cx.abstractions[id + 1] = default_typing_context.abstractions[id + 1]
  /\ cx.abstractions[id + 1].type = cx.type_prototypes[builtin_structors[id + 1].type_id + 1]
  /\ Len(cx.abstractions[id + 1].args) = Len(builtin_structors[id + 1].args)
  /\ Len(cx.abstractions[id + 1].coargs) = Len(builtin_structors[id + 1].coargs)
  /\ \A i \in 1..Len(builtin_structors[id + 1].args) :
        Denote(cx.types, cx.abstractions[id + 1].args[i])
          = TemplateDenotes(cx, builtin_structors[id + 1].type_id,
                            builtin_structors[id + 1].args[i])
  /\ \A i \in 1..Len(builtin_structors[id + 1].coargs) :
        Denote(cx.types, cx.abstractions[id + 1].coargs[i])
          = TemplateDenotes(cx, builtin_structors[id + 1].type_id,
                            builtin_structors[id + 1].coargs[i])

\* C30: whatever the typer has checked, with or without errors, the
\* prototype of every built-in type is still a concrete type applied to
\* distinct unbound variables, and the argument, coargument and result types
\* of every built-in structor still refer to those variables: they denote
\* what they denoted in the default context
BuiltinsNeverChanged ==
  /\ \A tid \in 0..(Len(builtin_types) - 1) :
        /\ ctx.type_prototypes[tid + 1] = default_typing_context.type_prototypes[tid + 1]
        /\ PrototypeGeneral(ctx, tid)
        /\ Denote(ctx.types, ctx.type_prototypes[tid + 1])
             = Denote(default_typing_context.types,
                      default_typing_context.type_prototypes[tid + 1])
  /\ \A id \in 0..(Len(builtin_structors) - 1) :
        /\ SignatureGeneral(ctx, id)
        /\ \A h \in Range(Handles(ctx.abstractions[id + 1])) :
              Denote(ctx.types, h) = Denote(default_typing_context.types, h)

\* the typer has checked a program in which Cons and Pair are used at the
\* integer type and a case has clauses of Nil, Cons and Pair: a list of
\* integers and a pair of integers are among the types of the context
StructorsUsedAtInteger ==
  /\ IsProgram("map_sum_pair")
  /\ typed = "ok"
  /\ \E h \in 0..(Len(ctx.types) - 1) :
        Denote(ctx.types, h) = [tid |-> list, ps |-> <<[tid |-> integer, ps |-> <<>>]>>]
  /\ \E h \in 0..(Len(ctx.types) - 1) :
        Denote(ctx.types, h)
          = [tid |-> pair, ps |-> <<[tid |-> integer, ps |-> <<>>],
                                    [tid |-> integer, ps |-> <<>>]>>]

====
